---- MODULE Spec2Model ----
(***************************************************************************)
(* BaseRepository (src/lib/repositories/BaseRepository.ts): the generic    *)
(* CRUD repository with read-through caching, over a cache service and a   *)
(* backing table.  The cache service (lib/cache.ts) and the query          *)
(* primitives of the concrete repository (lib/repositories/ItemRepository) *)
(* are not part of the sources at hand; they are modelled from the         *)
(* specification's collaborator contracts (get / set-with-expiry, and      *)
(* parameterised queries returning rows).                                  *)
(***************************************************************************)
EXTENDS Integers, Sequences, FiniteSets, TLC

VARIABLES clock, db, cache, last, stale, scen, issued, fault, supplied,
          tasks, log, store

vars == <<clock, db, cache, last, stale, scen, issued, fault, supplied,
          tasks, log, store>>

(***************************************************************************)
(* Bounds of the model.                                                    *)
(***************************************************************************)
\* The clock (Date.now(), in milliseconds) runs over 0..MaxClock.
MaxClock == 1
\* Largest number of rows of a table that existed before the repository started.
MaxRows == 12
\* Values Math.random().toString(36).substr(2, 9) may yield.
Rands == {0}
\* The table the repository is constructed over.
TableName == "items"

(***************************************************************************)
(* Values: "absent" (null / undefined) is the empty sequence, a present    *)
(* value v is <<v>>.                                                       *)
(***************************************************************************)
None == <<>>
Some(v) == <<v>>

\* `if (cached)`, `if (item)`, `if (!item)`: objects and arrays (the empty
\* array included) are truthy, null and undefined are not.
Truthy(opt) == opt # None

\* Object spread {...a, ...b}: b's keys win.
Spread(a, b) ==
  [k \in DOMAIN a \cup DOMAIN b |-> IF k \in DOMAIN b THEN b[k] ELSE a[k]]

\* new Date().toISOString() of the clock reading t.
toISOString(t) == [iso |-> t]

(***************************************************************************)
(* JSON.stringify / JSON.parse of a flat object: the text is the sequence  *)
(* of key/value pairs, keys in a fixed order.                              *)
(***************************************************************************)
KeyOrder == <<"description", "name">>

JSONstringify(obj) ==
  LET keys == SelectSeq(KeyOrder, LAMBDA k : k \in DOMAIN obj)
  IN [i \in 1..Len(keys) |-> <<keys[i], obj[keys[i]]>>]

JSONparse(text) ==
  [k \in {text[i][1] : i \in 1..Len(text)} |->
     LET i == CHOOSE j \in 1..Len(text) : text[j][1] = k IN text[i][2]]

(***************************************************************************)
(* The cache service: get(key) -> value or absent, set(key, value, ttl).   *)
(***************************************************************************)
cacheGet(c, key) == IF key \in DOMAIN c THEN Some(c[key].value) ELSE None

cacheSet(c, key, value, ttl) ==
  [k \in DOMAIN c \cup {key} |->
     IF k = key THEN [value |-> value, ttl |-> ttl] ELSE c[k]]

cacheDrop(c, key) == [k \in DOMAIN c \ {key} |-> c[k]]

(***************************************************************************)
(* The backing table: rows (id, data, created_at, updated_at) keyed by id, *)
(* the columns the INSERT of create fills in that order.                   *)
(***************************************************************************)
Row(id, data, created, updated) ==
  [id |-> id, data |-> data, created_at |-> created, updated_at |-> updated]

\* A row read back as an entity: the data column parsed, the three columns
\* of the base entity beside it.
RowToEntity(row) ==
  Spread(JSONparse(row.data),
         [id |-> row.id, created_at |-> row.created_at,
          updated_at |-> row.updated_at])

\* INSERT INTO t VALUES ($1, $2, $3, $4); id is the table's key.
dbInsert(d, params) ==
  [k \in DOMAIN d \cup {params[1]} |->
     IF k = params[1]
       THEN Row(params[1], params[2], params[3], params[4])
       ELSE d[k]]

\* UPDATE t SET data = $1, updated_at = $2 WHERE id = $3
dbUpdate(d, params) ==
  [k \in DOMAIN d |->
     IF k = params[3]
       THEN [d[k] EXCEPT !.data = params[1], !.updated_at = params[2]]
       ELSE d[k]]

\* DELETE FROM t WHERE id = $1
dbDelete(d, params) == [k \in DOMAIN d \ {params[1]} |-> d[k]]

\* SELECT * FROM t WHERE id = $1, at most one row.
dbSelectOne(d, params) ==
  IF params[1] \in DOMAIN d THEN Some(RowToEntity(d[params[1]])) ELSE None

\* Ids (table_timestamp_random) are ordered by timestamp, then random part.
IdLess(a, b) == a[3] < b[3] \/ (a[3] = b[3] /\ a[5] < b[5])

\* Row a sorts before row b under ORDER BY column ASC; rows with equal
\* column values are kept in id order.
RowBefore(a, b, column) ==
  \/ a[column].iso < b[column].iso
  \/ (a[column].iso = b[column].iso /\ IdLess(a.id, b.id))

RECURSIVE SortAsc(_, _)
SortAsc(rows, column) ==
  IF rows = {} THEN <<>>
  ELSE LET first == CHOOSE r \in rows :
                      \A o \in rows \ {r} : RowBefore(r, o, column)
       IN <<first>> \o SortAsc(rows \ {first}, column)

Reverse(s) == [i \in 1..Len(s) |-> s[Len(s) + 1 - i]]

\* SELECT * FROM t ORDER BY <column> <order> LIMIT $1 OFFSET $2
dbSelectMany(d, column, order, params) ==
  LET asc     == SortAsc({d[k] : k \in DOMAIN d}, column)
      ordered == IF order = "asc" THEN asc ELSE Reverse(asc)
      from    == params[2] + 1
      upto    == IF params[2] + params[1] < Len(ordered)
                   THEN params[2] + params[1] ELSE Len(ordered)
  IN [i \in 1..(IF upto >= from THEN upto - from + 1 ELSE 0) |->
        RowToEntity(ordered[from + i - 1])]

(***************************************************************************)
(* BaseRepository.  A string built by a template literal is the sequence   *)
(* of its pieces.                                                          *)
(***************************************************************************)
NoError == <<>>
NotFoundError(id) == <<TableName, " not found: ">> \o id
DuplicateKeyError == <<"duplicate key">>
\* new Error('queryDatabase not implemented'), and the like
NotImplementedError(method) == <<method, " not implemented">>
\* What a failing backing store, and a failing cache service, reject with.
StoreError == <<"backing store failure">>
CacheError == <<"cache failure">>

RECURSIVE Join(_, _)
\* parts.join(sep)
Join(parts, sep) ==
  IF Len(parts) = 0 THEN <<>>
  ELSE IF Len(parts) = 1 THEN parts[1]
  ELSE parts[1] \o <<sep>> \o Join(Tail(parts), sep)

getCacheKey(parts) == <<TableName, ":">> \o Join(parts, ":")

\* (A variant of the list key that leaves the limit out and writes the page
\* in its place.)
ListCacheKeyWithoutLimit(page, limit) ==
  getCacheKey(<< <<"list">>, <<"page:", page>>, <<"limit:", page>> >>)

\* this.getCacheKey('list', `page:${page}`, `limit:${limit}`)
ListCacheKey(page, limit) ==
  getCacheKey(<< <<"list">>, <<"page:", page>>, <<"limit:", limit>> >>)

\* this.getCacheKey('id', id)
IdCacheKey(id) == getCacheKey(<< <<"id">>, id >>)

\* `${this.tableName}_${Date.now()}_${Math.random().toString(36).substr(2, 9)}`
generateId(now, rand) == <<TableName, "_", now, "_", rand>>

\* The expiries handed to cache.set, in seconds.
ListTTL == 3600
ItemTTL == 86400

\* The defaults of list's parameter destructuring.
DefaultPage == 1
DefaultLimit == 10
DefaultSort == "created_at"
DefaultOrder == "desc"

\* const { k = dflt } = params
Param(params, k, dflt) == IF k \in DOMAIN params THEN params[k] ELSE dflt

\* (A variant counting pages from 0.)
ListOffsetFromZero(page, limit) == page * limit

ListOffset(page, limit) == (page - 1) * limit

ListQuery(sort, order, limit, offset) ==
  [sql    |-> <<"SELECT * FROM ", TableName, " ORDER BY ", sort, " ", order,
                " LIMIT $1 OFFSET $2">>,
   params |-> <<limit, offset>>]

SelectQuery(id) ==
  [sql    |-> <<"SELECT * FROM ", TableName, " WHERE id = $1">>,
   params |-> <<id>>]

InsertQuery(id, data, now) ==
  [sql    |-> <<"INSERT INTO ", TableName, " VALUES ($1, $2, $3, $4)">>,
   params |-> <<id, JSONstringify(data), now, now>>]

UpdateQuery(id, data, now) ==
  [sql    |-> <<"UPDATE ", TableName,
                " SET data = $1, updated_at = $2 WHERE id = $3">>,
   params |-> <<JSONstringify(data), now, id>>]

DeleteQuery(id) ==
  [sql    |-> <<"DELETE FROM ", TableName, " WHERE id = $1">>,
   params |-> <<id>>]

\* queryDatabase as a concrete repository supplies it: the statement run
\* against the table; its rows, the table after it, and its failure if any.
queryDatabase(d, q) ==
  IF q.sql[1] = "SELECT * FROM "
    THEN [db |-> d, rows |-> dbSelectMany(d, q.sql[4], q.sql[6], q.params),
          error |-> NoError]
  ELSE IF q.sql[1] = "INSERT INTO "
    THEN IF q.params[1] \in DOMAIN d
           THEN [db |-> d, rows |-> <<>>, error |-> DuplicateKeyError]
           ELSE [db |-> dbInsert(d, q.params), rows |-> <<>>, error |-> NoError]
  ELSE IF q.sql[1] = "UPDATE "
    THEN [db |-> dbUpdate(d, q.params), rows |-> <<>>, error |-> NoError]
  ELSE [db |-> dbDelete(d, q.params), rows |-> <<>>, error |-> NoError]

\* queryDatabaseSingle as a concrete repository supplies it.
queryDatabaseSingle(d, q) == dbSelectOne(d, q.params)

\* (A variant of the base queryDatabase that resolves with no rows.)
queryDatabaseReturningNothing(d, q) ==
  [db |-> d, rows |-> <<>>, error |-> NoError]

\* The two primitives as BaseRepository itself defines them.
queryDatabaseNotImplemented(d, q) ==
  [db |-> d, rows |-> <<>>, error |-> NotImplementedError("queryDatabase")]

queryDatabaseSingleNotImplemented(d, q) ==
  [row |-> None, error |-> NotImplementedError("queryDatabaseSingle")]

\* The collaborators' methods that can fail during a call.
FaultKinds == {"cache.get", "cache.set", "queryDatabase", "queryDatabaseSingle"}

\* this.queryDatabase(...): the base class's body unless the subclass
\* supplies one; a supplied one rejects while the backing store fails.
thisQueryDatabase(d, q) ==
  IF ~supplied THEN queryDatabaseNotImplemented(d, q)
  ELSE IF "queryDatabase" \in fault
    THEN [db |-> d, rows |-> <<>>, error |-> StoreError]
  ELSE queryDatabase(d, q)

\* this.queryDatabaseSingle(...)
thisQueryDatabaseSingle(d, q) ==
  IF ~supplied THEN queryDatabaseSingleNotImplemented(d, q)
  ELSE IF "queryDatabaseSingle" \in fault
    THEN [row |-> None, error |-> StoreError]
  ELSE [row |-> queryDatabaseSingle(d, q), error |-> NoError]

\* this.cache.get(key): rejects while the cache service fails.
thisCacheGet(c, key) ==
  IF "cache.get" \in fault
    THEN [value |-> None, error |-> CacheError]
    ELSE [value |-> cacheGet(c, key), error |-> NoError]

\* this.cache.set(key, value, ttl): rejects, storing nothing, while the
\* cache service fails.
thisCacheSet(c, key, value, ttl) ==
  IF "cache.set" \in fault
    THEN [cache |-> c, error |-> CacheError]
    ELSE [cache |-> cacheSet(c, key, value, ttl), error |-> NoError]

\* (A variant of invalidateCache that drops every entry.)
invalidateCacheClearing(c) == [k \in {} |-> k]

\* invalidateCache(): the body is empty.
invalidateCache(c) == c

(***************************************************************************)
(* The outcome of one call: the cache and table after it, its result (or   *)
(* the error it rejects with), the statements and cache writes it issued,  *)
(* in order, and the methods it awaited, in order.                         *)
(***************************************************************************)
Outcome(c, d, result, error, queries, sets, steps) ==
  [cache |-> c, db |-> d, result |-> result, error |-> error,
   queries |-> queries, sets |-> sets, steps |-> steps]

CacheWrite(key, value, ttl) == [key |-> key, value |-> value, ttl |-> ttl]

\* (A variant of list without the early return on a cache hit.)
listWithoutEarlyReturn(c, d, params) ==
  LET page     == Param(params, "page", DefaultPage)
      limit    == Param(params, "limit", DefaultLimit)
      sort     == Param(params, "sort", DefaultSort)
      order    == Param(params, "order", DefaultOrder)
      cacheKey == ListCacheKey(page, limit)
      offset   == ListOffset(page, limit)
      query    == ListQuery(sort, order, limit, offset)
      items    == queryDatabase(d, query).rows
  IN Outcome(cacheSet(c, cacheKey, items, ListTTL), d, Some(items),
             NoError, <<query>>, <<CacheWrite(cacheKey, items, ListTTL)>>,
             <<"cache.get", "queryDatabase", "cache.set">>)

\* (A variant of list that does not await cache.set: a failed write goes
\* unnoticed.)
listNotAwaitingSet(c, d, params) ==
  LET page     == Param(params, "page", DefaultPage)
      limit    == Param(params, "limit", DefaultLimit)
      sort     == Param(params, "sort", DefaultSort)
      order    == Param(params, "order", DefaultOrder)
      cacheKey == ListCacheKey(page, limit)
      got      == thisCacheGet(c, cacheKey)
      cached   == got.value
      offset   == ListOffset(page, limit)
      query    == ListQuery(sort, order, limit, offset)
      res      == thisQueryDatabase(d, query)
      items    == res.rows
      put      == thisCacheSet(c, cacheKey, items, ListTTL)
  IN IF got.error # NoError
       THEN Outcome(c, d, None, got.error, <<>>, <<>>, <<"cache.get">>)
     ELSE IF Truthy(cached)
       THEN Outcome(c, d, cached, NoError, <<>>, <<>>, <<"cache.get">>)
     ELSE IF res.error # NoError
       THEN Outcome(c, d, None, res.error, <<query>>, <<>>,
                    <<"cache.get", "queryDatabase">>)
     ELSE Outcome(put.cache, d, Some(items), NoError, <<query>>,
                  IF put.error = NoError
                    THEN <<CacheWrite(cacheKey, items, ListTTL)>> ELSE <<>>,
                  <<"cache.get", "queryDatabase", "cache.set">>)

\* (A variant of list whose cache key names the sort field and order too.)
listKeyedBySort(c, d, params) ==
  LET page     == Param(params, "page", DefaultPage)
      limit    == Param(params, "limit", DefaultLimit)
      sort     == Param(params, "sort", DefaultSort)
      order    == Param(params, "order", DefaultOrder)
      cacheKey == getCacheKey(<< <<"list">>, <<"page:", page>>,
                                 <<"limit:", limit>>, <<"sort:", sort>>,
                                 <<"order:", order>> >>)
      got      == thisCacheGet(c, cacheKey)
      cached   == got.value
      offset   == ListOffset(page, limit)
      query    == ListQuery(sort, order, limit, offset)
      res      == thisQueryDatabase(d, query)
      items    == res.rows
  IN IF got.error # NoError
       THEN Outcome(c, d, None, got.error, <<>>, <<>>, <<"cache.get">>)
     ELSE IF Truthy(cached)
       THEN Outcome(c, d, cached, NoError, <<>>, <<>>, <<"cache.get">>)
     ELSE IF res.error # NoError
       THEN Outcome(c, d, None, res.error, <<query>>, <<>>,
                    <<"cache.get", "queryDatabase">>)
     ELSE Outcome(cacheSet(c, cacheKey, items, ListTTL), d, Some(items),
                  NoError, <<query>>,
                  <<CacheWrite(cacheKey, items, ListTTL)>>,
                  <<"cache.get", "queryDatabase", "cache.set">>)

\* (A variant of list that answers a failed query with an empty page, and
\* caches it.)
listFallingBackToEmpty(c, d, params) ==
  LET page     == Param(params, "page", DefaultPage)
      limit    == Param(params, "limit", DefaultLimit)
      sort     == Param(params, "sort", DefaultSort)
      order    == Param(params, "order", DefaultOrder)
      cacheKey == ListCacheKey(page, limit)
      got      == thisCacheGet(c, cacheKey)
      cached   == got.value
      offset   == ListOffset(page, limit)
      query    == ListQuery(sort, order, limit, offset)
      res      == thisQueryDatabase(d, query)
      items    == res.rows
  IN IF got.error # NoError
       THEN Outcome(c, d, None, got.error, <<>>, <<>>, <<"cache.get">>)
     ELSE IF Truthy(cached)
       THEN Outcome(c, d, cached, NoError, <<>>, <<>>, <<"cache.get">>)
     ELSE Outcome(cacheSet(c, cacheKey, items, ListTTL), d, Some(items),
                  NoError, <<query>>,
                  <<CacheWrite(cacheKey, items, ListTTL)>>,
                  <<"cache.get", "queryDatabase", "cache.set">>)

list(c, d, params) ==
  LET page     == Param(params, "page", DefaultPage)
      limit    == Param(params, "limit", DefaultLimit)
      sort     == Param(params, "sort", DefaultSort)
      order    == Param(params, "order", DefaultOrder)
      cacheKey == ListCacheKey(page, limit)
      got      == thisCacheGet(c, cacheKey)
      cached   == got.value
      offset   == ListOffset(page, limit)
      query    == ListQuery(sort, order, limit, offset)
      res      == thisQueryDatabase(d, query)
      items    == res.rows
      put      == thisCacheSet(c, cacheKey, items, ListTTL)
  IN IF got.error # NoError
       THEN Outcome(c, d, None, got.error, <<>>, <<>>, <<"cache.get">>)
     ELSE IF Truthy(cached)
       THEN Outcome(c, d, cached, NoError, <<>>, <<>>, <<"cache.get">>)
     ELSE IF res.error # NoError
       THEN Outcome(c, d, None, res.error, <<query>>, <<>>,
                    <<"cache.get", "queryDatabase">>)
     ELSE IF put.error # NoError
       THEN Outcome(c, d, None, put.error, <<query>>, <<>>,
                    <<"cache.get", "queryDatabase", "cache.set">>)
     ELSE Outcome(put.cache, d, Some(items), NoError, <<query>>,
                  <<CacheWrite(cacheKey, items, ListTTL)>>,
                  <<"cache.get", "queryDatabase", "cache.set">>)

\* (A variant of getById without the early return on a cache hit.)
getByIdWithoutEarlyReturn(c, d, id) ==
  LET cacheKey == IdCacheKey(id)
      query    == SelectQuery(id)
      item     == queryDatabaseSingle(d, query)
  IN IF Truthy(item)
       THEN Outcome(cacheSet(c, cacheKey, item[1], ItemTTL), d, item,
                    NoError, <<query>>,
                    <<CacheWrite(cacheKey, item[1], ItemTTL)>>,
                    <<"cache.get", "queryDatabaseSingle", "cache.set">>)
       ELSE Outcome(c, d, None, NoError, <<query>>, <<>>,
                    <<"cache.get", "queryDatabaseSingle">>)

\* (A variant of getById without the `if (item)` guard of cache.set.)
getByIdCachingAbsence(c, d, id) ==
  LET cacheKey == IdCacheKey(id)
      cached   == cacheGet(c, cacheKey)
      query    == SelectQuery(id)
      item     == queryDatabaseSingle(d, query)
  IN IF Truthy(cached)
       THEN Outcome(c, d, cached, NoError, <<>>, <<>>, <<"cache.get">>)
       ELSE Outcome(cacheSet(c, cacheKey, item, ItemTTL), d, item,
                    NoError, <<query>>,
                    <<CacheWrite(cacheKey, item, ItemTTL)>>,
                    <<"cache.get", "queryDatabaseSingle", "cache.set">>)

\* (A variant of getById that caches an entity for as long as a page.)
getByIdWithListTTL(c, d, id) ==
  LET cacheKey == IdCacheKey(id)
      got      == thisCacheGet(c, cacheKey)
      cached   == got.value
      query    == SelectQuery(id)
      res      == thisQueryDatabaseSingle(d, query)
      item     == res.row
  IN IF got.error # NoError
       THEN Outcome(c, d, None, got.error, <<>>, <<>>, <<"cache.get">>)
     ELSE IF Truthy(cached)
       THEN Outcome(c, d, cached, NoError, <<>>, <<>>, <<"cache.get">>)
     ELSE IF res.error # NoError
       THEN Outcome(c, d, None, res.error, <<query>>, <<>>,
                    <<"cache.get", "queryDatabaseSingle">>)
     ELSE IF Truthy(item)
       THEN Outcome(cacheSet(c, cacheKey, item[1], ListTTL), d, item,
                    NoError, <<query>>,
                    <<CacheWrite(cacheKey, item[1], ListTTL)>>,
                    <<"cache.get", "queryDatabaseSingle", "cache.set">>)
     ELSE Outcome(c, d, None, NoError, <<query>>, <<>>,
                  <<"cache.get", "queryDatabaseSingle">>)

getById(c, d, id) ==
  LET cacheKey == IdCacheKey(id)
      got      == thisCacheGet(c, cacheKey)
      cached   == got.value
      query    == SelectQuery(id)
      res      == thisQueryDatabaseSingle(d, query)
      item     == res.row
      put      == thisCacheSet(c, cacheKey, item[1], ItemTTL)
  IN IF got.error # NoError
       THEN Outcome(c, d, None, got.error, <<>>, <<>>, <<"cache.get">>)
     ELSE IF Truthy(cached)
       THEN Outcome(c, d, cached, NoError, <<>>, <<>>, <<"cache.get">>)
     ELSE IF res.error # NoError
       THEN Outcome(c, d, None, res.error, <<query>>, <<>>,
                    <<"cache.get", "queryDatabaseSingle">>)
     ELSE IF Truthy(item) /\ put.error # NoError
       THEN Outcome(c, d, None, put.error, <<query>>, <<>>,
                    <<"cache.get", "queryDatabaseSingle", "cache.set">>)
     ELSE IF Truthy(item)
       THEN Outcome(put.cache, d, item, NoError, <<query>>,
                    <<CacheWrite(cacheKey, item[1], ItemTTL)>>,
                    <<"cache.get", "queryDatabaseSingle", "cache.set">>)
     ELSE Outcome(c, d, None, NoError, <<query>>, <<>>,
                  <<"cache.get", "queryDatabaseSingle">>)

\* (A variant of create that reads the row back and returns what it reads.)
createReadingBack(c, d, data, id, now) ==
  LET query == InsertQuery(id, data, now)
      res   == thisQueryDatabase(d, query)
      read  == SelectQuery(id)
      back  == thisQueryDatabaseSingle(res.db, read)
  IN IF res.error # NoError
       THEN Outcome(c, d, None, res.error, <<query>>, <<>>,
                    <<"queryDatabase">>)
       ELSE Outcome(invalidateCache(c), res.db, back.row, back.error,
                    <<query, read>>, <<>>,
                    <<"queryDatabase", "queryDatabaseSingle",
                      "invalidateCache">>)

\* (A variant of create that stores the entity it assembled in the cache.)
createCachingEntity(c, d, data, id, now) ==
  LET item  == Spread(data, [id |-> id, created_at |-> now, updated_at |-> now])
      query == InsertQuery(id, data, now)
      res   == thisQueryDatabase(d, query)
      write == CacheWrite(IdCacheKey(id), item, ItemTTL)
  IN IF res.error # NoError
       THEN Outcome(c, d, None, res.error, <<query>>, <<>>,
                    <<"queryDatabase">>)
       ELSE Outcome(cacheSet(c, write.key, write.value, write.ttl), res.db,
                    Some(item), NoError, <<query>>, <<write>>,
                    <<"queryDatabase", "cache.set">>)

\* (A variant of create that stamps created_at alone.)
createWithoutUpdatedAt(c, d, data, id, now) ==
  LET item  == Spread(data, [id |-> id, created_at |-> now])
      query == InsertQuery(id, data, now)
      res   == thisQueryDatabase(d, query)
  IN IF res.error # NoError
       THEN Outcome(c, d, None, res.error, <<query>>, <<>>,
                    <<"queryDatabase">>)
       ELSE Outcome(invalidateCache(c), res.db, Some(item), NoError,
                    <<query>>, <<>>, <<"queryDatabase", "invalidateCache">>)

create(c, d, data, id, now) ==
  LET item  == Spread(data, [id |-> id, created_at |-> now, updated_at |-> now])
      query == InsertQuery(id, data, now)
      res   == thisQueryDatabase(d, query)
  IN IF res.error # NoError
       THEN Outcome(c, d, None, res.error, <<query>>, <<>>,
                    <<"queryDatabase">>)
       ELSE Outcome(invalidateCache(c), res.db, Some(item), NoError,
                    <<query>>, <<>>, <<"queryDatabase", "invalidateCache">>)

\* (A variant of update that inserts the entity when there is none.)
updateOrInsert(c, d, id, data, now) ==
  LET got     == getById(c, d, id)
      item    == got.result
      updated == Spread(Spread(item[1], data), [updated_at |-> now])
      query   == UpdateQuery(id, data, now)
      res     == thisQueryDatabase(got.db, query)
      insert  == InsertQuery(id, data, now)
      ins     == thisQueryDatabase(got.db, insert)
  IN IF got.error # NoError
       THEN got
     ELSE IF ~Truthy(item)
       THEN Outcome(got.cache, ins.db,
                    Some(Spread(data, [id |-> id, created_at |-> now,
                                       updated_at |-> now])),
                    ins.error, got.queries \o <<insert>>, got.sets,
                    got.steps \o <<"queryDatabase">>)
     ELSE IF res.error # NoError
       THEN Outcome(got.cache, got.db, None, res.error,
                    got.queries \o <<query>>, got.sets,
                    got.steps \o <<"queryDatabase">>)
     ELSE Outcome(invalidateCache(got.cache), res.db, Some(updated), NoError,
                  got.queries \o <<query>>, got.sets,
                  got.steps \o <<"queryDatabase", "invalidateCache">>)

\* (A variant of update that stores the entity it returns in the cache.)
updateCachingResult(c, d, id, data, now) ==
  LET got     == getById(c, d, id)
      item    == got.result
      updated == Spread(Spread(item[1], data), [updated_at |-> now])
      query   == UpdateQuery(id, data, now)
      res     == thisQueryDatabase(got.db, query)
      write   == CacheWrite(IdCacheKey(id), updated, ItemTTL)
  IN IF got.error # NoError
       THEN got
     ELSE IF ~Truthy(item)
       THEN Outcome(got.cache, got.db, None, NotFoundError(id),
                    got.queries, got.sets, got.steps)
     ELSE IF res.error # NoError
       THEN Outcome(got.cache, got.db, None, res.error,
                    got.queries \o <<query>>, got.sets,
                    got.steps \o <<"queryDatabase">>)
     ELSE Outcome(cacheSet(got.cache, write.key, write.value, write.ttl),
                  res.db, Some(updated), NoError,
                  got.queries \o <<query>>, got.sets \o <<write>>,
                  got.steps \o <<"queryDatabase", "cache.set">>)

\* (A variant of update that looks the entity up in the table, past the
\* cache.)
updateCheckingTable(c, d, id, data, now) ==
  LET got     == getByIdWithoutEarlyReturn(c, d, id)
      item    == got.result
      updated == Spread(Spread(item[1], data), [updated_at |-> now])
      query   == UpdateQuery(id, data, now)
      res     == thisQueryDatabase(got.db, query)
  IN IF ~Truthy(item)
       THEN Outcome(got.cache, got.db, None, NotFoundError(id),
                    got.queries, got.sets, got.steps)
       ELSE Outcome(invalidateCache(got.cache), res.db, Some(updated), NoError,
                    got.queries \o <<query>>, got.sets,
                    got.steps \o <<"queryDatabase", "invalidateCache">>)

\* (A variant of update that keeps of the fetched entity its id and
\* created_at alone.)
updateDroppingFields(c, d, id, data, now) ==
  LET got     == getById(c, d, id)
      item    == got.result
      updated == Spread(Spread([id |-> item[1].id,
                                created_at |-> item[1].created_at], data),
                        [updated_at |-> now])
      query   == UpdateQuery(id, data, now)
      res     == thisQueryDatabase(got.db, query)
  IN IF got.error # NoError
       THEN got
     ELSE IF ~Truthy(item)
       THEN Outcome(got.cache, got.db, None, NotFoundError(id),
                    got.queries, got.sets, got.steps)
     ELSE IF res.error # NoError
       THEN Outcome(got.cache, got.db, None, res.error,
                    got.queries \o <<query>>, got.sets,
                    got.steps \o <<"queryDatabase">>)
     ELSE Outcome(invalidateCache(got.cache), res.db, Some(updated), NoError,
                  got.queries \o <<query>>, got.sets,
                  got.steps \o <<"queryDatabase", "invalidateCache">>)

update(c, d, id, data, now) ==
  LET got     == getById(c, d, id)
      item    == got.result
      updated == Spread(Spread(item[1], data), [updated_at |-> now])
      query   == UpdateQuery(id, data, now)
      res     == thisQueryDatabase(got.db, query)
  IN IF got.error # NoError
       THEN got
     ELSE IF ~Truthy(item)
       THEN Outcome(got.cache, got.db, None, NotFoundError(id),
                    got.queries, got.sets, got.steps)
     ELSE IF res.error # NoError
       THEN Outcome(got.cache, got.db, None, res.error,
                    got.queries \o <<query>>, got.sets,
                    got.steps \o <<"queryDatabase">>)
     ELSE Outcome(invalidateCache(got.cache), res.db, Some(updated), NoError,
                  got.queries \o <<query>>, got.sets,
                  got.steps \o <<"queryDatabase", "invalidateCache">>)

\* (A variant of delete that looks the entity up first, as update does.)
deleteChecked(c, d, id) ==
  LET got   == getById(c, d, id)
      query == DeleteQuery(id)
      res   == thisQueryDatabase(got.db, query)
  IN IF got.error # NoError
       THEN got
     ELSE IF ~Truthy(got.result)
       THEN Outcome(got.cache, got.db, None, NotFoundError(id),
                    got.queries, got.sets, got.steps)
     ELSE Outcome(invalidateCache(got.cache), res.db, None, res.error,
                  got.queries \o <<query>>, got.sets,
                  got.steps \o <<"queryDatabase", "invalidateCache">>)

delete(c, d, id) ==
  LET query == DeleteQuery(id)
      res   == thisQueryDatabase(d, query)
  IN IF res.error # NoError
       THEN Outcome(c, d, None, res.error, <<query>>, <<>>,
                    <<"queryDatabase">>)
       ELSE Outcome(invalidateCache(c), res.db, None, NoError, <<query>>,
                    <<>>, <<"queryDatabase", "invalidateCache">>)

(***************************************************************************)
(* The state machine.  clock is Date.now(); db the backing table; cache    *)
(* the cache service's entries; last the latest call with its outcome.     *)
(* fault holds the collaborators' methods that fail at present, supplied   *)
(* whether the subclass supplies the two query primitives.  Three history  *)
(* variables serve the properties: stale, the keys of the cache entries    *)
(* stored before the latest completed write; scen, how far the latest      *)
(* calls have followed the create / getById / update / delete / getById    *)
(* scenario on one entity; issued, the ids create has returned.  tasks     *)
(* holds the calls in flight when calls overlap, each at the await it has  *)
(* reached, and log the awaits that have resolved, in order; store is the  *)
(* state of a store made by one of the store helpers.                      *)
(***************************************************************************)
Empty == [k \in {} |-> k]

\* The callers that may have a call in flight at once.
Procs == {1, 2}

\* A caller with no call in flight, and all of them so.
Idle == [pc |-> "idle"]
NoTasks == [p \in Procs |-> Idle]

\* No store has been made.
NoStore == [made |-> FALSE]

Times == 0..MaxClock

\* The ids a caller can pass.
Ids == {generateId(t, r) : t \in Times, r \in Rands}

\* Bodies of create (every field of the entity but the base three).
CreateInputs == {[name |-> "x", description |-> "d"]}

\* Bodies of update (any part of the fields).
UpdateInputs == {[name |-> "y"]}

\* The entity a call is about: the one create made, or the id passed.
Target(call) ==
  IF call.op = "create" /\ call.result # None
    THEN Some(call.result[1].id) ELSE call.id

\* The successful write, if any, that the call before this one made to the
\* entity this call is about.
Follows(id) ==
  IF last.op \in {"create", "update", "delete"} /\ last.error = NoError
     /\ Target(last) = id
    THEN last.op ELSE "none"

\* A call as observed: its arguments; when it began, the clock, the
\* failing methods, what the cache held under its key and the table under
\* its id; and its outcome.
Call(op, id, data, params, key, out) ==
  [op |-> op, id |-> id, data |-> data, params |-> params,
   at       |-> clock,
   fault    |-> fault,
   cached   |-> IF key # None THEN cacheGet(cache, key[1]) ELSE None,
   existed  |-> id # None /\ id[1] \in DOMAIN db,
   row      |-> IF id # None THEN dbSelectOne(db, id) ELSE None,
   staleHit |-> key # None /\ key[1] \in DOMAIN cache /\ key[1] \in stale,
   follows  |-> Follows(id),
   reissued |-> op = "create" /\ out.result # None
                  /\ out.result[1].id \in issued,
   result |-> out.result, error |-> out.error,
   queries |-> out.queries, sets |-> out.sets, steps |-> out.steps]

NoCall ==
  [op |-> "none", id |-> None, data |-> None, params |-> None,
   at |-> 0, fault |-> {},
   cached |-> None, existed |-> FALSE, row |-> None, staleHit |-> FALSE,
   follows |-> "none", reissued |-> FALSE, result |-> None, error |-> NoError,
   queries |-> <<>>, sets |-> <<>>, steps |-> <<>>]

Written(out) == {out.sets[i].key : i \in 1..Len(out.sets)}

\* The stale keys after a call: a completed write makes every entry one
\* stored before it; a read only refreshes the keys it stores.
StaleAfter(out, isWrite) ==
  IF isWrite /\ out.error = NoError
    THEN DOMAIN out.cache
    ELSE stale \ Written(out)

NoScenario == [stage |-> 0, id |-> None]

\* The scenario: (1) create A with name "x" on an empty cache, (2)
\* getById(A.id), (3) update(A.id, {name: "y"}), (4) delete(A.id),
\* (5) getById(A.id); any other call leaves it.
ScenAfter(call) ==
  IF /\ call.op = "create" /\ call.error = NoError
     /\ call.data[1].name = "x" /\ DOMAIN cache = {}
    THEN [stage |-> 1, id |-> Target(call)]
  ELSE IF /\ call.id = scen.id
          /\ \/ scen.stage \in {1, 4} /\ call.op = "getById"
             \/ scen.stage = 2 /\ call.op = "update"
                  /\ call.data = Some([name |-> "y"])
             \/ scen.stage = 3 /\ call.op = "delete"
    THEN [scen EXCEPT !.stage = scen.stage + 1]
  ELSE NoScenario

\* The ids create has returned, this call's included.
IssuedAfter(call) ==
  IF call.op = "create" /\ call.result # None
    THEN issued \cup {call.result[1].id} ELSE issued

Finish(call, out, isWrite) ==
  /\ db' = out.db
  /\ cache' = out.cache
  /\ last' = call
  /\ stale' = StaleAfter(out, isWrite)
  /\ scen' = ScenAfter(call)
  /\ issued' = IssuedAfter(call)
  /\ UNCHANGED <<clock, fault, supplied, tasks, log, store>>

List(params) ==
  LET out == list(cache, db, params)
      key == ListCacheKey(Param(params, "page", DefaultPage),
                          Param(params, "limit", DefaultLimit))
  IN Finish(Call("list", None, None, Some(params), Some(key), out), out, FALSE)

GetById(id) ==
  LET out == getById(cache, db, id)
  IN Finish(Call("getById", Some(id), None, None, Some(IdCacheKey(id)), out),
            out, FALSE)

\* generateId and create read the clock within the same millisecond.
Create(data, rand) ==
  LET id  == generateId(clock, rand)
      now == toISOString(clock)
      out == create(cache, db, data, id, now)
  IN Finish(Call("create", None, Some(data), None, None, out), out, TRUE)

Update(id, data) ==
  LET now == toISOString(clock)
      out == update(cache, db, id, data, now)
  IN Finish(Call("update", Some(id), Some(data), None, Some(IdCacheKey(id)),
                 out), out, TRUE)

Delete(id) ==
  LET out == delete(cache, db, id)
  IN Finish(Call("delete", Some(id), None, None, None, out), out, TRUE)

\* Time passes.
Tick ==
  /\ clock < MaxClock
  /\ clock' = clock + 1
  /\ UNCHANGED <<db, cache, last, stale, scen, issued, fault, supplied,
                 tasks, log, store>>

\* The cache service drops an entry (its expiry has passed, or it evicts it).
Expire(key) ==
  /\ key \in DOMAIN cache
  /\ cache' = cacheDrop(cache, key)
  /\ stale' = stale \ {key}
  /\ UNCHANGED <<clock, db, last, scen, issued, fault, supplied,
                 tasks, log, store>>

Init ==
  /\ clock = 0
  /\ db = Empty
  /\ cache = Empty
  /\ last = NoCall
  /\ stale = {}
  /\ scen = NoScenario
  /\ issued = {}
  /\ fault = {}
  /\ supplied = TRUE
  /\ tasks = NoTasks
  /\ log = <<>>
  /\ store = NoStore

Next ==
  \/ \E id \in Ids : GetById(id)
  \/ \E data \in CreateInputs, rand \in Rands : Create(data, rand)
  \/ \E id \in Ids, data \in UpdateInputs : Update(id, data)
  \/ \E id \in Ids : Delete(id)
  \/ Tick
  \/ \E key \in DOMAIN cache : Expire(key)

Spec == Init /\ [][Next]_vars

(***************************************************************************)
(* Listing a table that does not change: the table holds n rows written    *)
(* before the repository was constructed, and only list is called.         *)
(***************************************************************************)
\* Row k of the earlier table: created k ms before the clock's origin; the
\* even rows were updated since (their data is the update's body).
PriorRow(k) ==
  Row(generateId(0 - k, 0),
      IF k % 2 = 0 THEN JSONstringify([name |-> "y"])
                   ELSE JSONstringify([name |-> "x", description |-> "d"]),
      toISOString(0 - k),
      IF k % 2 = 0 THEN toISOString(0) ELSE toISOString(0 - k))

PriorTable(n) ==
  [id \in {PriorRow(k).id : k \in 1..n} |->
     PriorRow(CHOOSE k \in 1..n : PriorRow(k).id = id)]

\* Parameters of list: none, a page alone, or all four.
ListInputs ==
  {Empty, [page |-> 2]} \cup
  [page : {1, 2}, limit : {5, 10}, sort : {"created_at", "updated_at"},
   order : {"asc", "desc"}]

\* The sizes of the earlier table: empty, less than a default page, and
\* more than one.
PriorSizes == {0, MaxRows \div 2, MaxRows}

InitList ==
  /\ clock = 0
  /\ db \in {PriorTable(n) : n \in PriorSizes}
  /\ cache = Empty
  /\ last = NoCall
  /\ stale = {}
  /\ scen = NoScenario
  /\ issued = {}
  /\ fault = {}
  /\ supplied = TRUE
  /\ tasks = NoTasks
  /\ log = <<>>
  /\ store = NoStore

NextList ==
  \/ \E params \in ListInputs : List(params)
  \/ \E key \in DOMAIN cache : Expire(key)

SpecList == InitList /\ [][NextList]_vars

(***************************************************************************)
(* Collaborators that fail: every operation is called, list included,      *)
(* within one millisecond, while the cache service's get or one of the two *)
(* query primitives may start and stop failing between calls.              *)
(***************************************************************************)
Faults == {{}} \cup {{k} : k \in FaultKinds}

\* The methods that fail become those of f.
Fail(f) ==
  /\ f # fault
  /\ fault' = f
  /\ UNCHANGED <<clock, db, cache, last, stale, scen, issued, supplied,
                 tasks, log, store>>

\* Parameters of list beside writes: none, or a page alone.
FewListInputs == {Empty, [page |-> 2]}

NextFault ==
  \/ \E params \in FewListInputs : List(params)
  \/ \E id \in Ids : GetById(id)
  \/ \E data \in CreateInputs, rand \in Rands : Create(data, rand)
  \/ \E id \in Ids, data \in UpdateInputs : Update(id, data)
  \/ \E id \in Ids : Delete(id)
  \/ \E key \in DOMAIN cache : Expire(key)
  \/ \E f \in Faults : Fail(f)

SpecFault == Init /\ [][NextFault]_vars

(***************************************************************************)
(* A repository whose subclass supplies no query primitives, over a cache  *)
(* that another instance over the same table has filled.                   *)
(***************************************************************************)
PriorEntity ==
  RowToEntity(Row(generateId(0, 0),
                  JSONstringify([name |-> "x", description |-> "d"]),
                  toISOString(0), toISOString(0)))

PriorCache ==
  cacheSet(cacheSet(Empty, IdCacheKey(PriorEntity.id), PriorEntity, ItemTTL),
           ListCacheKey(DefaultPage, DefaultLimit), <<PriorEntity>>, ListTTL)

InitBase ==
  /\ clock = 0
  /\ db = Empty
  /\ cache = PriorCache
  /\ last = NoCall
  /\ stale = {}
  /\ scen = NoScenario
  /\ issued = {}
  /\ fault = {}
  /\ supplied = FALSE
  /\ tasks = NoTasks
  /\ log = <<>>
  /\ store = NoStore

NextBase ==
  \/ \E params \in FewListInputs : List(params)
  \/ \E id \in Ids : GetById(id)
  \/ \E data \in CreateInputs, rand \in Rands : Create(data, rand)
  \/ \E id \in Ids, data \in UpdateInputs : Update(id, data)
  \/ \E id \in Ids : Delete(id)
  \/ Tick
  \/ \E key \in DOMAIN cache : Expire(key)

SpecBase == InitBase /\ [][NextBase]_vars

(***************************************************************************)
(* Calls that overlap.  An async method runs until its next await and      *)
(* resumes when the awaited method has resolved, so two calls in flight    *)
(* interleave at their awaits.  A call in flight is a record: its          *)
(* arguments and locals, and pc, the method it is awaiting ("done" once it *)
(* has resolved or rejected).  The collaborators do not fail here.         *)
(***************************************************************************)
\* update(id, data) up to its first await: now is read, getById is entered
\* and cache.get is awaited.
updateBegin(id, data, now) ==
  [op |-> "update", pc |-> "cache.get", id |-> id, data |-> data,
   now |-> now, item |-> None, result |-> None, error |-> NoError]

\* (A variant of update's resumption whose UPDATE writes only over the row
\* it read: a row updated since is left alone and the call rejects.)
updateResumeVersioned(t, c, d) ==
  LET cacheKey == IdCacheKey(t.id)
      updated  == Spread(Spread(t.item[1], t.data), [updated_at |-> t.now])
      fresh    == /\ t.id \in DOMAIN d
                  /\ d[t.id].updated_at = t.item[1].updated_at
  IN CASE t.pc = "cache.get" ->
            LET cached == thisCacheGet(c, cacheKey).value
            IN IF Truthy(cached)
                 THEN [task |-> [t EXCEPT !.pc = "queryDatabase",
                                          !.item = cached],
                       cache |-> c, db |-> d]
                 ELSE [task |-> [t EXCEPT !.pc = "queryDatabaseSingle"],
                       cache |-> c, db |-> d]
       [] t.pc = "queryDatabaseSingle" ->
            LET item == thisQueryDatabaseSingle(d, SelectQuery(t.id)).row
            IN IF Truthy(item)
                 THEN [task |-> [t EXCEPT !.pc = "cache.set", !.item = item],
                       cache |-> c, db |-> d]
                 ELSE [task |-> [t EXCEPT !.pc = "done",
                                          !.error = NotFoundError(t.id)],
                       cache |-> c, db |-> d]
       [] t.pc = "cache.set" ->
            [task  |-> [t EXCEPT !.pc = "queryDatabase"],
             cache |-> cacheSet(c, cacheKey, t.item[1], ItemTTL), db |-> d]
       [] t.pc = "queryDatabase" ->
            IF fresh
              THEN [task  |-> [t EXCEPT !.pc = "invalidateCache"], cache |-> c,
                    db |-> thisQueryDatabase(d, UpdateQuery(t.id, t.data,
                                                            t.now)).db]
              ELSE [task |-> [t EXCEPT !.pc = "done", !.error = StoreError],
                    cache |-> c, db |-> d]
       [] t.pc = "invalidateCache" ->
            [task  |-> [t EXCEPT !.pc = "done", !.result = Some(updated)],
             cache |-> invalidateCache(c), db |-> d]

\* update resumed after the await it is at: the call, the cache and the
\* table after it has run to its next await (or to its end).
updateResume(t, c, d) ==
  LET cacheKey == IdCacheKey(t.id)
      updated  == Spread(Spread(t.item[1], t.data), [updated_at |-> t.now])
  IN CASE t.pc = "cache.get" ->
            LET cached == thisCacheGet(c, cacheKey).value
            IN IF Truthy(cached)
                 THEN [task |-> [t EXCEPT !.pc = "queryDatabase",
                                          !.item = cached],
                       cache |-> c, db |-> d]
                 ELSE [task |-> [t EXCEPT !.pc = "queryDatabaseSingle"],
                       cache |-> c, db |-> d]
       [] t.pc = "queryDatabaseSingle" ->
            LET item == thisQueryDatabaseSingle(d, SelectQuery(t.id)).row
            IN IF Truthy(item)
                 THEN [task |-> [t EXCEPT !.pc = "cache.set", !.item = item],
                       cache |-> c, db |-> d]
                 ELSE [task |-> [t EXCEPT !.pc = "done",
                                          !.error = NotFoundError(t.id)],
                       cache |-> c, db |-> d]
       [] t.pc = "cache.set" ->
            [task  |-> [t EXCEPT !.pc = "queryDatabase"],
             cache |-> cacheSet(c, cacheKey, t.item[1], ItemTTL), db |-> d]
       [] t.pc = "queryDatabase" ->
            [task  |-> [t EXCEPT !.pc = "invalidateCache"], cache |-> c,
             db    |-> thisQueryDatabase(d, UpdateQuery(t.id, t.data,
                                                        t.now)).db]
       [] t.pc = "invalidateCache" ->
            [task  |-> [t EXCEPT !.pc = "done", !.result = Some(updated)],
             cache |-> invalidateCache(c), db |-> d]

\* list(params) up to its first await: cache.get is awaited.
listBegin(params) ==
  [op |-> "list", pc |-> "cache.get", params |-> params,
   items |-> None, result |-> None, error |-> NoError]

\* (A variant of list's resumption that stores its page only when the key
\* has no entry yet.)
listResumeSetIfAbsent(t, c, d) ==
  LET page     == Param(t.params, "page", DefaultPage)
      limit    == Param(t.params, "limit", DefaultLimit)
      sort     == Param(t.params, "sort", DefaultSort)
      order    == Param(t.params, "order", DefaultOrder)
      cacheKey == ListCacheKey(page, limit)
  IN CASE t.pc = "cache.get" ->
            LET cached == thisCacheGet(c, cacheKey).value
            IN IF Truthy(cached)
                 THEN [task |-> [t EXCEPT !.pc = "done", !.result = cached],
                       cache |-> c, db |-> d]
                 ELSE [task |-> [t EXCEPT !.pc = "queryDatabase"],
                       cache |-> c, db |-> d]
       [] t.pc = "queryDatabase" ->
            LET query == ListQuery(sort, order, limit, ListOffset(page, limit))
            IN [task  |-> [t EXCEPT !.pc = "cache.set",
                                    !.items = Some(thisQueryDatabase(d, query).rows)],
                cache |-> c, db |-> d]
       [] t.pc = "cache.set" ->
            [task  |-> [t EXCEPT !.pc = "done", !.result = t.items],
             cache |-> IF cacheKey \in DOMAIN c THEN c
                       ELSE cacheSet(c, cacheKey, t.items[1], ListTTL),
             db |-> d]

\* list resumed after the await it is at.
listResume(t, c, d) ==
  LET page     == Param(t.params, "page", DefaultPage)
      limit    == Param(t.params, "limit", DefaultLimit)
      sort     == Param(t.params, "sort", DefaultSort)
      order    == Param(t.params, "order", DefaultOrder)
      cacheKey == ListCacheKey(page, limit)
  IN CASE t.pc = "cache.get" ->
            LET cached == thisCacheGet(c, cacheKey).value
            IN IF Truthy(cached)
                 THEN [task |-> [t EXCEPT !.pc = "done", !.result = cached],
                       cache |-> c, db |-> d]
                 ELSE [task |-> [t EXCEPT !.pc = "queryDatabase"],
                       cache |-> c, db |-> d]
       [] t.pc = "queryDatabase" ->
            LET query == ListQuery(sort, order, limit, ListOffset(page, limit))
            IN [task  |-> [t EXCEPT !.pc = "cache.set",
                                    !.items = Some(thisQueryDatabase(d, query).rows)],
                cache |-> c, db |-> d]
       [] t.pc = "cache.set" ->
            [task  |-> [t EXCEPT !.pc = "done", !.result = t.items],
             cache |-> cacheSet(c, cacheKey, t.items[1], ListTTL), db |-> d]

\* The fields each caller updates: they differ, so that a write that loses
\* the other's field shows.
RaceData(p) == IF p = 1 THEN [name |-> "y"] ELSE [description |-> "e"]

\* The table when the calls begin: one entity, written a millisecond ago.
RaceTable ==
  [id \in {generateId(0, 0)} |->
     Row(id, JSONstringify([name |-> "x", description |-> "d"]),
         toISOString(0), toISOString(0))]

\* Caller p calls update on the entity, or on an id the table lacks.
BeginUpdate(p, id) ==
  /\ tasks[p].pc = "idle"
  /\ tasks' = [tasks EXCEPT ![p] = updateBegin(id, RaceData(p),
                                               toISOString(clock))]
  /\ log' = Append(log, <<p, "begin">>)
  /\ UNCHANGED <<clock, db, cache, last, stale, scen, issued, fault,
                 supplied, store>>

\* Caller p calls list().
BeginList(p) ==
  /\ tasks[p].pc = "idle"
  /\ tasks' = [tasks EXCEPT ![p] = listBegin(Empty)]
  /\ log' = Append(log, <<p, "begin">>)
  /\ UNCHANGED <<clock, db, cache, last, stale, scen, issued, fault,
                 supplied, store>>

\* The method caller p's call awaits resolves, and the call runs on to its
\* next await.
Resume(p) ==
  /\ tasks[p].pc \notin {"idle", "done"}
  /\ LET next == IF tasks[p].op = "update"
                   THEN updateResume(tasks[p], cache, db)
                   ELSE listResume(tasks[p], cache, db)
     IN /\ tasks' = [tasks EXCEPT ![p] = next.task]
        /\ cache' = next.cache
        /\ db' = next.db
  /\ log' = Append(log, <<p, tasks[p].pc>>)
  /\ UNCHANGED <<clock, last, stale, scen, issued, fault, supplied, store>>

\* Another client of the table deletes the entity meanwhile.
DeleteMeanwhile ==
  /\ db # Empty
  /\ db' = Empty
  /\ UNCHANGED <<clock, cache, last, stale, scen, issued, fault, supplied,
                 tasks, log, store>>

InitRace ==
  /\ clock = 1
  /\ db = RaceTable
  /\ cache = Empty
  /\ last = NoCall
  /\ stale = {}
  /\ scen = NoScenario
  /\ issued = {}
  /\ fault = {}
  /\ supplied = TRUE
  /\ tasks = NoTasks
  /\ log = <<>>
  /\ store = NoStore

NextRace ==
  \/ \E p \in Procs, id \in Ids : BeginUpdate(p, id)
  \/ \E p \in Procs : BeginList(p)
  \/ \E p \in Procs : Resume(p)
  \/ DeleteMeanwhile

SpecRace == InitRace /\ [][NextRace]_vars

(***************************************************************************)
(* Stores.  A store's state is the record of its fields; set merges a      *)
(* partial state into it.  fetch runs in two steps: up to the await of     *)
(* fetchFn, and from fetchFn's settling to the end; a fetchFn that never   *)
(* settles leaves the fetch at its await.                                  *)
(***************************************************************************)
set(state, partial) == Spread(state, partial)

\* The state a store made by createAsyncStore starts in.
createAsyncStore == [data |-> None, loading |-> FALSE, error |-> None]

setData(state, data) == set(state, [data |-> Some(data), error |-> None])

setLoading(state, loading) == set(state, [loading |-> loading])

setError(state, error) == set(state, [error |-> error, loading |-> FALSE])

reset(state) == set(state, [data |-> None, loading |-> FALSE, error |-> None])

\* What fetchFn settles with: a value, an Error with a message, or a thrown
\* value that is not an Error.
Resolved(value) == [kind |-> "resolve", value |-> value]

RejectedWithError(message) ==
  [kind |-> "reject", isError |-> TRUE, message |-> message]

RejectedWithValue(value) ==
  [kind |-> "reject", isError |-> FALSE, value |-> value]

\* fetch up to its await: loading is set, then fetchFn is called.
fetchBegin(state) == set(state, [loading |-> TRUE])

\* (A variant of fetch with try and finally but no catch: a rejection of
\* fetchFn leaves through the finally block.)
fetchSettleWithoutCatch(state, outcome) ==
  IF outcome.kind = "resolve"
    THEN [store |-> set(set(state, [data |-> Some(outcome.value),
                                    error |-> None]),
                        [loading |-> FALSE]),
          error |-> NoError]
    ELSE [store |-> set(state, [loading |-> FALSE]),
          error |-> IF outcome.isError THEN <<outcome.message>>
                    ELSE <<outcome.value>>]

\* (A variant of fetch that keeps data already in the store: a response
\* arriving after another does not replace it.)
fetchSettleKeepingData(state, outcome) ==
  LET settled ==
        IF outcome.kind = "resolve"
          THEN set(state, [data |-> IF state.data = None
                                      THEN Some(outcome.value)
                                      ELSE state.data,
                           error |-> None])
          ELSE set(state, [error |-> Some(IF outcome.isError
                                            THEN outcome.message
                                            ELSE "Unknown error")])
  IN [store |-> set(settled, [loading |-> FALSE]), error |-> NoError]

\* (A variant of fetch whose catch block clears data as well.)
fetchSettleClearingData(state, outcome) ==
  LET settled ==
        IF outcome.kind = "resolve"
          THEN set(state, [data |-> Some(outcome.value), error |-> None])
          ELSE set(state, [data |-> None,
                           error |-> Some(IF outcome.isError
                                            THEN outcome.message
                                            ELSE "Unknown error")])
  IN [store |-> set(settled, [loading |-> FALSE]), error |-> NoError]

\* fetch from the settling of fetchFn on: the try or the catch block, then
\* the finally block; error is what the promise of fetch rejects with.
fetchSettle(state, outcome) ==
  LET settled ==
        IF outcome.kind = "resolve"
          THEN set(state, [data |-> Some(outcome.value), error |-> None])
          ELSE set(state, [error |-> Some(IF outcome.isError
                                            THEN outcome.message
                                            ELSE "Unknown error")])
  IN [store |-> set(settled, [loading |-> FALSE]), error |-> NoError]

StoreData == {"a", "b"}

Messages == {"Failed to fetch"}

FetchParams == {1, 2}

Outcomes ==
  {Resolved(v) : v \in StoreData}
    \cup {RejectedWithError(msg) : msg \in Messages}
    \cup {RejectedWithValue(v) : v \in {"thrown"}}

StoreFrame ==
  UNCHANGED <<clock, db, cache, last, stale, scen, issued, fault, supplied,
              log>>

SetData(data) ==
  /\ store' = setData(store, data)
  /\ UNCHANGED tasks
  /\ StoreFrame

SetLoading(loading) ==
  /\ store' = setLoading(store, loading)
  /\ UNCHANGED tasks
  /\ StoreFrame

SetError(error) ==
  /\ store' = setError(store, error)
  /\ UNCHANGED tasks
  /\ StoreFrame

Reset ==
  /\ store' = reset(store)
  /\ UNCHANGED tasks
  /\ StoreFrame

\* The callers whose fetch is at its await.
Pending == {q \in Procs : tasks[q].pc = "fetchFn"}

\* Caller p calls fetch(params): it runs to the await of fetchFn(params).
BeginFetch(p, params) ==
  /\ tasks[p].pc \in {"idle", "done"}
  /\ store' = fetchBegin(store)
  /\ tasks' = [tasks EXCEPT ![p] =
                 [op |-> "fetch", pc |-> "fetchFn", params |-> params,
                  loadingAtCall |-> store'.loading, outcome |-> None,
                  error |-> NoError, pendingAtCall |-> Pending,
                  pendingAtSettle |-> {}]]
  /\ StoreFrame

\* The fetchFn of caller p's fetch settles, and the fetch runs to its end.
SettleFetch(p, outcome) ==
  /\ tasks[p].pc = "fetchFn"
  /\ LET end == fetchSettle(store, outcome)
     IN /\ store' = end.store
        /\ tasks' = [tasks EXCEPT ![p].pc = "done",
                                  ![p].outcome = Some(outcome),
                                  ![p].error = end.error,
                                  ![p].pendingAtSettle = Pending \ {p}]
  /\ StoreFrame

InitAsync ==
  /\ clock = 0
  /\ db = Empty
  /\ cache = Empty
  /\ last = NoCall
  /\ stale = {}
  /\ scen = NoScenario
  /\ issued = {}
  /\ fault = {}
  /\ supplied = TRUE
  /\ tasks = NoTasks
  /\ log = <<>>
  /\ store = createAsyncStore

NextAsync ==
  \/ \E data \in StoreData : SetData(data)
  \/ \E loading \in BOOLEAN : SetLoading(loading)
  \/ \E error \in {None} \cup {Some(msg) : msg \in Messages} : SetError(error)
  \/ Reset
  \/ \E p \in Procs, params \in FetchParams : BeginFetch(p, params)
  \/ \E p \in Procs, outcome \in Outcomes : SettleFetch(p, outcome)

SpecAsync == InitAsync /\ [][NextAsync]_vars

(***************************************************************************)
(* useItemStore.  fetchItems awaits twice: fetch('/api/items'), and the    *)
(* body of an ok response; it runs in three steps.  The route answers a    *)
(* GET with { data: items } or, failing, with status 500.                  *)
(***************************************************************************)
MaxItems == 3

Item(id, name) ==
  [id |-> id, name |-> name, description |-> "d",
   created_at |-> toISOString(0)]

ItemIds == {"i1", "i2"}

\* Two items share an id, so that an id can occur twice with a difference.
Items == {Item("i1", "n"), Item("i1", "m"), Item("i2", "n")}

\* The state useItemStore starts in.
useItemStore ==
  [items |-> <<>>, loading |-> FALSE, error |-> None, query |-> ""]

setQuery(state, query) == set(state, [query |-> query])

\* (A variant of addItem that skips an item whose id the list has.)
addItemUnique(state, item) ==
  IF \E i \in 1..Len(state.items) : state.items[i].id = item.id
    THEN state
    ELSE set(state, [items |-> Append(state.items, item)])

addItem(state, item) == set(state, [items |-> Append(state.items, item)])

removeItem(state, id) ==
  set(state, [items |-> SelectSeq(state.items,
                                  LAMBDA item : item.id # id)])

useItemStoreReset(state) ==
  set(state, [items |-> <<>>, loading |-> FALSE, error |-> None,
              query |-> ""])

\* What the catch block stores for a thrown value.
CaughtMessage(thrown) ==
  IF thrown.isError THEN thrown.message ELSE "Unknown error"

\* fetchItems up to its first await.
fetchItemsBegin(state) == set(state, [loading |-> TRUE])

\* The catch block, then the finally block.
fetchItemsCatch(state, thrown) ==
  set(set(state, [error |-> Some(CaughtMessage(thrown))]),
      [loading |-> FALSE])

\* (A variant of fetchItems that appends the response data to items.)
fetchItemsResumeAppending(t, state, outcome) ==
  CASE t.pc = "fetch" ->
         IF outcome.kind = "reject"
           THEN [task  |-> [t EXCEPT !.pc = "done", !.outcome = Some(outcome)],
                 store |-> fetchItemsCatch(state, outcome)]
         ELSE IF ~outcome.value.ok
           THEN [task  |-> [t EXCEPT !.pc = "done", !.outcome = Some(outcome)],
                 store |-> fetchItemsCatch(state,
                             RejectedWithError("Failed to fetch"))]
         ELSE [task |-> [t EXCEPT !.pc = "response.json"], store |-> state]
    [] t.pc = "response.json" ->
         IF outcome.kind = "reject"
           THEN [task  |-> [t EXCEPT !.pc = "done", !.outcome = Some(outcome)],
                 store |-> fetchItemsCatch(state, outcome)]
           ELSE [task  |-> [t EXCEPT !.pc = "done", !.outcome = Some(outcome)],
                 store |-> set(set(state,
                                   [items |-> state.items \o outcome.value.data,
                                    error |-> None]),
                               [loading |-> FALSE])]

\* fetchItems resumed after the await it is at, which settled with outcome.
fetchItemsResume(t, state, outcome) ==
  CASE t.pc = "fetch" ->
         IF outcome.kind = "reject"
           THEN [task  |-> [t EXCEPT !.pc = "done", !.outcome = Some(outcome)],
                 store |-> fetchItemsCatch(state, outcome)]
         ELSE IF ~outcome.value.ok
           THEN [task  |-> [t EXCEPT !.pc = "done", !.outcome = Some(outcome)],
                 store |-> fetchItemsCatch(state,
                             RejectedWithError("Failed to fetch"))]
         ELSE [task |-> [t EXCEPT !.pc = "response.json"], store |-> state]
    [] t.pc = "response.json" ->
         IF outcome.kind = "reject"
           THEN [task  |-> [t EXCEPT !.pc = "done", !.outcome = Some(outcome)],
                 store |-> fetchItemsCatch(state, outcome)]
           ELSE [task  |-> [t EXCEPT !.pc = "done", !.outcome = Some(outcome)],
                 store |-> set(set(state, [items |-> outcome.value.data,
                                           error |-> None]),
                               [loading |-> FALSE])]

\* What fetch('/api/items') settles with.
Responses ==
  {Resolved([ok |-> TRUE]), Resolved([ok |-> FALSE]),
   RejectedWithError("network"), RejectedWithValue("thrown")}

\* What response.json() settles with.
Bodies ==
  {Resolved([data |-> <<>>]), Resolved([data |-> <<Item("i2", "n")>>]),
   RejectedWithError("Unexpected token")}

Queries == {"", "q"}

\* The callers of fetchItems.
ItemCallers == {1}

\* The fetchItems calls in flight.
InFlight == {p \in Procs : tasks[p].pc \in {"fetch", "response.json"}}

\* items changed under the calls in flight.
Touched(state) ==
  [p \in Procs |->
     IF p \in InFlight /\ state.items # store.items
       THEN [tasks[p] EXCEPT !.changedInFlight = TRUE]
       ELSE tasks[p]]

SetQuery(query) ==
  /\ store' = setQuery(store, query)
  /\ UNCHANGED tasks
  /\ StoreFrame

AddItem(item) ==
  /\ Len(store.items) < MaxItems
  /\ store' = addItem(store, item)
  /\ tasks' = Touched(store')
  /\ StoreFrame

RemoveItem(id) ==
  /\ store' = removeItem(store, id)
  /\ tasks' = Touched(store')
  /\ StoreFrame

ResetItems ==
  /\ store' = useItemStoreReset(store)
  /\ tasks' = Touched(store')
  /\ StoreFrame

\* Caller p calls fetchItems(): it runs to the await of fetch.
BeginFetchItems(p) ==
  /\ tasks[p].pc \in {"idle", "done"}
  /\ store' = fetchItemsBegin(store)
  /\ tasks' = [tasks EXCEPT ![p] =
                 [op |-> "fetchItems", pc |-> "fetch", outcome |-> None,
                  error |-> NoError, changedInFlight |-> FALSE]]
  /\ StoreFrame

\* What caller p's fetchItems awaits settles, and it runs on.
ResumeFetchItems(p, outcome) ==
  /\ tasks[p].pc \in {"fetch", "response.json"}
  /\ outcome \in IF tasks[p].pc = "fetch" THEN Responses ELSE Bodies
  /\ LET next == fetchItemsResume(tasks[p], store, outcome)
     IN /\ store' = next.store
        /\ tasks' = [tasks EXCEPT ![p] = next.task]
  /\ StoreFrame

InitItems ==
  /\ clock = 0
  /\ db = Empty
  /\ cache = Empty
  /\ last = NoCall
  /\ stale = {}
  /\ scen = NoScenario
  /\ issued = {}
  /\ fault = {}
  /\ supplied = TRUE
  /\ tasks = NoTasks
  /\ log = <<>>
  /\ store = useItemStore

NextItems ==
  \/ \E query \in Queries : SetQuery(query)
  \/ \E item \in Items : AddItem(item)
  \/ \E id \in ItemIds : RemoveItem(id)
  \/ ResetItems
  \/ \E p \in ItemCallers : BeginFetchItems(p)
  \/ \E p \in ItemCallers, outcome \in Responses \cup Bodies :
       ResumeFetchItems(p, outcome)

SpecItems == InitItems /\ [][NextItems]_vars

(***************************************************************************)
(* createSimpleStore(name, initialData).  initialData is the argument the  *)
(* store was made with; the closure holds it and no set changes it.        *)
(***************************************************************************)
createSimpleStore(initialData) ==
  [initialData |-> initialData, data |-> initialData, loading |-> FALSE,
   error |-> None]

simpleSetData(state, data) ==
  set(state, [data |-> Some(data), error |-> None])

simpleSetLoading(state, loading) == set(state, [loading |-> loading])

simpleSetError(state, error) ==
  set(state, [error |-> error, loading |-> FALSE])

\* (A variant of reset that clears data, as the reset of createAsyncStore
\* does.)
simpleResetToNull(state) ==
  set(state, [data |-> None, loading |-> FALSE, error |-> None])

simpleReset(state) ==
  set(state, [data |-> state.initialData, loading |-> FALSE,
              error |-> None])

SimpleData == {"a", "b", "c"}

SimpleErrors == {None} \cup {Some(msg) : msg \in {"e1", "e2", "e3"}}

InitialData == {None} \cup {Some(data) : data \in SimpleData}

SimpleSetData(data) ==
  /\ store' = simpleSetData(store, data)
  /\ UNCHANGED tasks
  /\ StoreFrame

SimpleSetLoading(loading) ==
  /\ store' = simpleSetLoading(store, loading)
  /\ UNCHANGED tasks
  /\ StoreFrame

SimpleSetError(error) ==
  /\ store' = simpleSetError(store, error)
  /\ UNCHANGED tasks
  /\ StoreFrame

SimpleReset ==
  /\ store' = simpleReset(store)
  /\ UNCHANGED tasks
  /\ StoreFrame

InitSimple ==
  /\ clock = 0
  /\ db = Empty
  /\ cache = Empty
  /\ last = NoCall
  /\ stale = {}
  /\ scen = NoScenario
  /\ issued = {}
  /\ fault = {}
  /\ supplied = TRUE
  /\ tasks = NoTasks
  /\ log = <<>>
  /\ \E initialData \in InitialData : store = createSimpleStore(initialData)

NextSimple ==
  \/ \E data \in SimpleData : SimpleSetData(data)
  \/ \E loading \in BOOLEAN : SimpleSetLoading(loading)
  \/ \E error \in SimpleErrors : SimpleSetError(error)
  \/ SimpleReset

SpecSimple == InitSimple /\ [][NextSimple]_vars

(***************************************************************************)
(* Cache keys as the strings they are.  A template literal turns a number  *)
(* into its decimal digits and joins the pieces with nothing between them; *)
(* the text of a key is the sequence of its characters.                    *)
(***************************************************************************)
\* The characters of the string pieces keys are made of.
Chars ==
  [piece \in {"items", ":", "list", "page:", "limit:", "id", "a", "b",
              "1", "0", "10"} |->
     CASE piece = "items"  -> <<"i", "t", "e", "m", "s">>
       [] piece = "list"   -> <<"l", "i", "s", "t">>
       [] piece = "page:"  -> <<"p", "a", "g", "e", ":">>
       [] piece = "limit:" -> <<"l", "i", "m", "i", "t", ":">>
       [] piece = "id"     -> <<"i", "d">>
       [] piece = "10"     -> <<"1", "0">>
       [] OTHER            -> <<piece>>]

Digit == <<"0", "1", "2", "3", "4", "5", "6", "7", "8", "9">>

\* String(n) of a natural number.
RECURSIVE NumberToString(_)
NumberToString(n) ==
  IF n < 10 THEN <<Digit[n + 1]>>
  ELSE NumberToString(n \div 10) \o <<Digit[(n % 10) + 1]>>

\* The characters of a sequence of string pieces.
RECURSIVE StringText(_)
StringText(pieces) ==
  IF pieces = <<>> THEN <<>>
  ELSE Chars[Head(pieces)] \o StringText(Tail(pieces))

\* The characters of a key: of a list key, whose page and limit are
\* numbers, or of an id key, whose id is a string.
KeyText(key) ==
  IF key[3] = "list"
    THEN StringText(SubSeq(key, 1, 5)) \o NumberToString(key[6])
           \o StringText(SubSeq(key, 7, 8)) \o NumberToString(key[9])
    ELSE StringText(key)

\* Pages, limits and ids whose digits and colons could run together.
KeyPages == {1, 11, 12}

KeyLimits == {1, 2, 10, 21}

KeyIds ==
  {<<"a">>, <<"a", ":", "b">>, <<"a", ":">>, <<"b">>,
   <<"list", ":", "page:", "1", ":", "limit:", "10">>,
   <<"id", ":", "a">>}

NoKey == [kind |-> "none"]

\* list computes its key (line 51); the store keeps the last two keys
\* computed, side by side.
ComputeListKey(page, limit) ==
  /\ store' = [first  |-> store.second,
               second |-> [kind |-> "list", page |-> page, limit |-> limit,
                           key |-> KeyText(ListCacheKey(page, limit))]]
  /\ UNCHANGED tasks
  /\ StoreFrame

\* getById computes its key (line 71).
ComputeIdKey(id) ==
  /\ store' = [first  |-> store.second,
               second |-> [kind |-> "id", id |-> StringText(id),
                           key |-> KeyText(IdCacheKey(id))]]
  /\ UNCHANGED tasks
  /\ StoreFrame

InitKeys ==
  /\ clock = 0
  /\ db = Empty
  /\ cache = Empty
  /\ last = NoCall
  /\ stale = {}
  /\ scen = NoScenario
  /\ issued = {}
  /\ fault = {}
  /\ supplied = TRUE
  /\ tasks = NoTasks
  /\ log = <<>>
  /\ store = [first |-> NoKey, second |-> NoKey]

NextKeys ==
  \/ \E page \in KeyPages, limit \in KeyLimits : ComputeListKey(page, limit)
  \/ \E id \in KeyIds : ComputeIdKey(id)

SpecKeys == InitKeys /\ [][NextKeys]_vars

(***************************************************************************)
(* Properties.                                                             *)
(***************************************************************************)
IsRead(call) == call.op \in {"list", "getById"}

\* C1: every write invalidates the collection's cache: once a create, update
\* or delete has completed, no later list or getById returns a cache entry
\* that was stored before that write.
C1_WritesInvalidate == IsRead(last) => ~last.staleHit

\* C2: the scenario, from an empty cache: create A with name "x";
\* getById(A.id) returns name "x"; update(A.id, {name: "y"}) returns name
\* "y"; delete(A.id); the further getById(A.id), the table holding no row
\* for A.id, returns null.
C2_Scenario ==
  /\ scen.stage = 2 => last.result # None /\ last.result[1].name = "x"
  /\ scen.stage = 3 => last.result # None /\ last.result[1].name = "y"
  /\ scen.stage = 5 /\ scen.id[1] \notin DOMAIN db => last.result = None

C4_GetAfterUpdate ==
  [][(/\ last.op = "update" /\ last.error = NoError
      /\ last'.op = "getById" /\ last'.id = last.id
      /\ ~last'.staleHit)
     => /\ last'.result # None
        /\ \A f \in DOMAIN last.data[1] :
             /\ f \in DOMAIN last'.result[1]
             /\ last'.result[1][f] = last.data[1][f]]_vars

IsUpdateStatement(q) == q.sql[1] = "UPDATE "

\* C5: update on an id for which the table holds no row fails with the
\* not-found error and issues no UPDATE, in every state of cache and table.
C5_UpdateMissing ==
  (last.op = "update" /\ ~last.existed)
    => /\ last.error = NotFoundError(last.id[1])
       /\ \A i \in 1..Len(last.queries) : ~IsUpdateStatement(last.queries[i])

\* The parameters a list call ran with, once the defaults are filled in.
PageOf(call)  == IF "page"  \in DOMAIN call.params[1] THEN call.params[1].page  ELSE DefaultPage
LimitOf(call) == IF "limit" \in DOMAIN call.params[1] THEN call.params[1].limit ELSE DefaultLimit
SortOf(call)  == IF "sort"  \in DOMAIN call.params[1] THEN call.params[1].sort  ELSE DefaultSort
OrderOf(call) == IF "order" \in DOMAIN call.params[1] THEN call.params[1].order ELSE DefaultOrder

\* C6: list with a cache entry present under the key of (collection, page,
\* limit) returns exactly that cached page and issues no query.
C6_ListHit ==
  (last.op = "list" /\ last.cached # None)
    => /\ last.result = last.cached
       /\ last.queries = <<>>
       /\ last.sets = <<>>

C6_Witness ==
  /\ last.op = "list" /\ last.cached # None
  /\ Len(last.result[1]) = 10
  /\ SortOf(last) = "created_at" /\ OrderOf(last) = "asc"
  /\ last.result[1][1].created_at.iso = 0 - 1

\* The rows of the table under ORDER BY column order, as entities.
Ordered(column, order) ==
  dbSelectMany(db, column, order, <<Cardinality(DOMAIN db), 0>>)

\* s[from], ..., s[from + n - 1], as far as s reaches.
Slice(s, from, n) ==
  [i \in 1..(IF Len(s) < from THEN 0
             ELSE IF Len(s) - from + 1 < n THEN Len(s) - from + 1 ELSE n) |->
     s[from + i - 1]]

\* C7: list with no cache entry under its key issues exactly one query, with
\* LIMIT limit and OFFSET (page - 1) * limit, ordered by sort / order, stores
\* the rows it gets under the (collection, page, limit) key with an expiry
\* of 3600 seconds and returns them; the defaults are page 1, limit 10, sort
\* created_at, order desc.
C7_ListMiss ==
  (last.op = "list" /\ last.cached = None)
    => LET rows == Slice(Ordered(SortOf(last), OrderOf(last)),
                         (PageOf(last) - 1) * LimitOf(last) + 1, LimitOf(last))
       IN /\ Len(last.queries) = 1
          /\ last.queries[1].sql =
               <<"SELECT * FROM ", "items", " ORDER BY ", SortOf(last), " ",
                 OrderOf(last), " LIMIT $1 OFFSET $2">>
          /\ last.queries[1].params =
               <<LimitOf(last), (PageOf(last) - 1) * LimitOf(last)>>
          /\ last.sets =
               <<[key   |-> <<"items", ":", "list", ":", "page:", PageOf(last),
                              ":", "limit:", LimitOf(last)>>,
                  value |-> rows, ttl |-> 3600]>>
          /\ last.result = Some(rows)
          /\ last.error = NoError

C7_Witness ==
  /\ last.op = "list" /\ last.cached = None
  /\ last.params = Some([page |-> 2])
  /\ Len(last.result[1]) = 2
  /\ last.queries[1].params = <<10, 10>>

\* C8: getById with a cache entry present under the key of (collection, id)
\* returns that cached entity and issues no query.
C8_GetHit ==
  (last.op = "getById" /\ last.cached # None)
    => /\ last.result = last.cached
       /\ last.queries = <<>>
       /\ last.sets = <<>>

C8_Witness ==
  /\ last.op = "getById" /\ last.cached # None
  /\ ~last.existed
  /\ last.result[1].name = "y"

\* C9: getById with no cache entry and no matching row returns null and
\* writes nothing to the cache; every getById that finds no cache entry
\* queries the table (absence is never cached).
C9_GetAbsent ==
  (last.op = "getById" /\ last.cached = None)
    => /\ last.queries = <<[sql |-> <<"SELECT * FROM ", "items", " WHERE id = $1">>,
                            params |-> last.id]>>
       /\ ~last.existed
            => /\ last.result = None
               /\ last.error = NoError
               /\ last.sets = <<>>
               /\ <<"items", ":", "id", ":">> \o last.id[1] \notin DOMAIN cache

C9_Witness ==
  /\ last.op = "getById" /\ last.cached = None /\ ~last.existed
  /\ last.follows = "delete"
  /\ last.result = None

EntityIds(page) == {page[i].id : i \in 1..Len(page)}

\* C10: the table unchanged between the calls, list(page = 1, limit = 10)
\* returns at most 10 entities and list(page = 2, limit = 10) the next 10 in
\* the requested ordering, the two pages sharing no entity, whatever list
\* calls went before.
C10_Pages ==
  [][(/\ last.op = "list" /\ last'.op = "list"
      /\ PageOf(last) = 1 /\ LimitOf(last) = 10
      /\ PageOf(last') = 2 /\ LimitOf(last') = 10
      /\ SortOf(last') = SortOf(last) /\ OrderOf(last') = OrderOf(last)
      /\ db' = db)
     => /\ Len(last.result[1]) <= 10
        /\ last'.result[1] = Slice(Ordered(SortOf(last), OrderOf(last)), 11, 10)
        /\ EntityIds(last.result[1]) \cap EntityIds(last'.result[1]) = {}]_vars

\* C11: create returns an entity in which id, created_at and updated_at are
\* all present and assigned by the repository (the id it generated, the
\* time of the call), and created_at equals updated_at.
C11_CreateFields ==
  (last.op = "create" /\ last.error = NoError)
    => /\ last.result # None
       /\ {"id", "created_at", "updated_at"} \subseteq DOMAIN last.result[1]
       /\ \E r \in Rands :
            last.result[1].id = <<"items", "_", last.at, "_", r>>
       /\ last.result[1].created_at = [iso |-> last.at]
       /\ last.result[1].updated_at = last.result[1].created_at

C11_Witness ==
  /\ last.op = "create" /\ last.error = NoError
  /\ last.at = 1
  /\ last.result[1].updated_at = [iso |-> 1]
  /\ last.result[1].name = "x"

\* C12: across any sequence of create calls on one repository, calls within
\* one clock tick included, no two returned entities have the same id.
C12_UniqueIds ==
  (last.op = "create" /\ last.error = NoError) => ~last.reissued

\* The entity getById(id) yields to a call: the cache entry under the id's
\* key when there is one, else the table's row.
Fetched(call) == IF call.cached # None THEN call.cached ELSE call.row

\* C13: a successful update(id, data) returns the entity getById(id) yields
\* with each top-level field named in data replaced by data's value and the
\* other fields kept, id and created_at those of the fetched entity, and
\* updated_at the time of the call.
C13_UpdateMerges ==
  (last.op = "update" /\ last.error = NoError)
    => /\ Fetched(last) # None
       /\ last.result # None
       /\ LET old  == Fetched(last)[1]
              new  == last.result[1]
              data == last.data[1]
          IN /\ DOMAIN new = DOMAIN old \cup DOMAIN data \cup {"updated_at"}
             /\ \A f \in DOMAIN data : new[f] = data[f]
             /\ \A f \in DOMAIN old \ (DOMAIN data \cup {"updated_at"}) :
                  new[f] = old[f]
             /\ new.id = old.id
             /\ new.created_at = old.created_at
             /\ new.updated_at = [iso |-> last.at]

C13_Witness ==
  /\ last.op = "update" /\ last.error = NoError
  /\ last.cached = None /\ last.row # None
  /\ last.row[1].name = "x" /\ last.row[1].updated_at = [iso |-> 0]
  /\ last.at = 1
  /\ last.result[1].name = "y" /\ last.result[1].description = "d"
  /\ last.result[1].created_at = [iso |-> 0]

\* C14: delete(id) performs no existence check: it issues exactly one DELETE
\* and completes without error, whether or not the table or the cache holds
\* an entity with that id.
C14_DeleteUnchecked ==
  last.op = "delete"
    => /\ last.queries =
            <<[sql    |-> <<"DELETE FROM ", "items", " WHERE id = $1">>,
               params |-> last.id]>>
       /\ last.steps = <<"queryDatabase", "invalidateCache">>
       /\ last.sets = <<>>
       /\ last.error = NoError

C14_Witness ==
  /\ last.op = "delete" /\ last.error = NoError
  /\ ~last.existed
  /\ <<"items", ":", "id", ":">> \o last.id[1] \notin DOMAIN cache
  /\ Len(last.queries) = 1

AnyCall ==
  \/ \E params \in FewListInputs : List(params)
  \/ \E id \in Ids : GetById(id)
  \/ \E data \in CreateInputs, rand \in Rands : Create(data, rand)
  \/ \E id \in Ids, data \in UpdateInputs : Update(id, data)
  \/ \E id \in Ids : Delete(id)

\* C16: the subclass supplying no query primitives, every operation that
\* reaches the backing store (create, delete, and list / getById / update
\* on a cache miss) fails with the 'not implemented' error and leaves the
\* cache unchanged.
C16_NotImplemented ==
  [][(/\ AnyCall
      /\ ~supplied
      /\ last'.op \in {"create", "delete"} \/ last'.cached = None)
     => /\ last'.error =
             <<IF last'.op \in {"getById", "update"}
                 THEN "queryDatabaseSingle" ELSE "queryDatabase",
               " not implemented">>
        /\ last'.result = None
        /\ cache' = cache]_vars

C16_Witness ==
  /\ ~supplied
  /\ last.op = "list" /\ last.cached = None
  /\ last.error = <<"queryDatabase", " not implemented">>
  /\ DOMAIN cache # {}

\* The call awaited a query primitive while that primitive was failing: the
\* single-row one on a miss of getById or update, the other one in create
\* and delete, in list on a miss, and in update once its entity was fetched.
StoreFailed(call) ==
  /\ "cache.get" \notin call.fault
  /\ \/ /\ "queryDatabaseSingle" \in call.fault
        /\ call.op \in {"getById", "update"} /\ call.cached = None
     \/ /\ "queryDatabase" \in call.fault
        /\ \/ call.op \in {"create", "delete"}
           \/ call.op = "list" /\ call.cached = None
           \/ call.op = "update" /\ Fetched(call) # None

Occurrences(seq, x) == Cardinality({i \in 1..Len(seq) : seq[i] = x})

C18_CacheFailureAsMiss ==
  (IsRead(last) /\ last.fault = {"cache.get"})
    => /\ last.error = NoError
       /\ Len(last.queries) = 1
       /\ last.op = "getById" => last.result = last.row
       /\ last.op = "list" =>
            last.result =
              Some(Slice(Ordered(SortOf(last), OrderOf(last)),
                         (PageOf(last) - 1) * LimitOf(last) + 1,
                         LimitOf(last)))

\* C19: every successful update returns an updated_at strictly greater than
\* the updated_at the entity had before it, whatever the clock reads (an
\* update in the tick of the create or of an earlier update included).
C19_UpdatedAtGrows ==
  (last.op = "update" /\ last.error = NoError)
    => /\ Fetched(last) # None
       /\ last.result[1].updated_at.iso > Fetched(last)[1].updated_at.iso

\* The key of a list page: table, ":", "list", ...
IsListKey(key) == Len(key) >= 3 /\ key[3] = "list"

\* C20: getById(id) with no cache entry and a matching row stores exactly
\* that row under the (collection, id) key with an expiry of 86400 seconds
\* and returns it; list entries are only ever written with an expiry of
\* 3600 seconds.
C20_Expiries ==
  /\ (/\ last.op = "getById" /\ last.cached = None /\ last.row # None
      /\ last.fault = {})
       => /\ last.sets =
               <<[key   |-> <<"items", ":", "id", ":">> \o last.id[1],
                  value |-> last.row[1], ttl |-> 86400]>>
          /\ last.result = last.row
          /\ last.error = NoError
  /\ last.op = "list"
       => \A i \in 1..Len(last.sets) :
            IsListKey(last.sets[i].key) /\ last.sets[i].ttl = 3600
  /\ \A i \in 1..Len(last.sets) :
       IsListKey(last.sets[i].key) => last.sets[i].ttl = 3600
  /\ \A k \in DOMAIN cache : IsListKey(k) => cache[k].ttl = 3600

C20_Witness ==
  /\ last.op = "getById" /\ last.cached = None /\ last.row # None
  /\ last.fault = {}
  /\ Len(last.sets) = 1 /\ last.sets[1].ttl = 86400
  /\ last.result[1].name = "x"
  /\ \E k \in DOMAIN cache : IsListKey(k) /\ Len(cache[k].value) = 1

\* C23: update(id, data) raises the not-found error exactly when there is
\* neither a cache entry under the id's key nor a row for id; for an id
\* deleted from the table while its cache entry is still there, update
\* raises no error, issues an UPDATE and returns a merged entity.
C23_NotFoundIff ==
  last.op = "update"
    => /\ last.error = <<"items", " not found: ">> \o last.id[1]
            <=> (last.cached = None /\ last.row = None)
       /\ (last.cached # None /\ last.row = None)
            => /\ last.error = NoError
               /\ \E i \in 1..Len(last.queries) :
                    IsUpdateStatement(last.queries[i])
               /\ last.result # None
               /\ \A f \in DOMAIN last.data[1] :
                    last.result[1][f] = last.data[1][f]
               /\ last.result[1].id = last.cached[1].id

C23_Witness ==
  /\ last.op = "update" /\ last.error = NoError
  /\ last.cached # None /\ last.row = None
  /\ last.follows = "delete"
  /\ last.result[1].name = "y"

OwnPage(call) ==
  Slice(Ordered(SortOf(call), OrderOf(call)),
        (PageOf(call) - 1) * LimitOf(call) + 1, LimitOf(call))

\* C25: the list cache key depends only on collection name, page and limit:
\* after list(page, limit, s1, o1) has filled the cache, a list call with
\* the same page and limit but another sort or order returns the page
\* computed for (s1, o1) and issues no query, while the entry lasts.
C25_KeyIgnoresSort ==
  [][/\ (last'.op = "list" /\ last'.cached = None)
          => /\ Len(last'.sets) = 1
             /\ last'.sets[1].key =
                  <<"items", ":", "list", ":", "page:", PageOf(last'),
                    ":", "limit:", LimitOf(last')>>
     /\ (/\ last.op = "list" /\ last.cached = None
         /\ last'.op = "list"
         /\ PageOf(last') = PageOf(last) /\ LimitOf(last') = LimitOf(last)
         /\ SortOf(last') # SortOf(last) \/ OrderOf(last') # OrderOf(last)
         /\ <<"items", ":", "list", ":", "page:", PageOf(last),
              ":", "limit:", LimitOf(last)>> \in DOMAIN cache)
          => /\ last'.result = Some(OwnPage(last))
             /\ last'.queries = <<>>]_vars

C25_Witness ==
  /\ last.op = "list" /\ last.cached # None
  /\ SortOf(last) = "updated_at"
  /\ Len(last.result[1]) = 10
  /\ last.result[1] # OwnPage(last)
  /\ last.queries = <<>>

\* C26: the entities of the table change only through create (one entity
\* more), update (the entity of the given id modified) and delete (the
\* entity of the given id removed): list and getById issue only read
\* queries and leave the table as it was, and so does an update that fails.
C26_StoreFrame ==
  [][/\ (/\ IsRead(last')
         /\ \/ \E params \in FewListInputs : List(params)
            \/ \E id \in Ids : GetById(id))
          => /\ db' = db
             /\ \A i \in 1..Len(last'.queries) :
                  last'.queries[i].sql[1] = "SELECT * FROM "
     /\ (/\ last'.op = "create"
         /\ \E data \in CreateInputs, rand \in Rands : Create(data, rand))
          => \/ last'.error # NoError /\ db' = db
             \/ /\ last'.error = NoError
                /\ last'.result[1].id \notin DOMAIN db
                /\ DOMAIN db' = DOMAIN db \cup {last'.result[1].id}
                /\ \A k \in DOMAIN db : db'[k] = db[k]
     /\ (/\ last'.op = "update"
         /\ \E id \in Ids, data \in UpdateInputs : Update(id, data))
          => /\ DOMAIN db' = DOMAIN db
             /\ \A k \in DOMAIN db \ {last'.id[1]} : db'[k] = db[k]
             /\ last'.error # NoError => db' = db
     /\ (/\ last'.op = "delete"
         /\ \E id \in Ids : Delete(id))
          => \/ last'.error # NoError /\ db' = db
             \/ /\ last'.error = NoError
                /\ DOMAIN db' = DOMAIN db \ {last'.id[1]}
                /\ \A k \in DOMAIN db' : db'[k] = db[k]
     /\ db' # db => AnyCall]_vars

C26_Witness ==
  /\ last.op = "update" /\ last.error = NoError
  /\ last.row # None /\ last.row[1].name = "x"
  /\ last.id[1] \in DOMAIN db
  /\ db[last.id[1]].data = << <<"name", "y">> >>
  /\ Cardinality(DOMAIN db) = 1

\* C27: each cache entry the repository writes holds exactly a value the
\* table returned in the same call (the row of that id, or a page of rows):
\* the entities create and update assemble are never written to the cache,
\* and dropping a cache entry changes nothing of what a later read that
\* misses the cache gets from the table.
C27_CacheHoldsStoreValues ==
  [][/\ last'.op \in {"create", "delete"} => last'.sets = <<>>
     /\ last'.op \in {"getById", "update"}
          => \/ last'.sets = <<>>
             \/ /\ last'.row # None
                /\ last'.sets =
                     <<[key   |-> <<"items", ":", "id", ":">> \o last'.id[1],
                        value |-> last'.row[1], ttl |-> 86400]>>
     /\ last'.op = "list"
          => \/ last'.sets = <<>>
             \/ /\ Len(last'.sets) = 1
                /\ last'.sets[1].value = OwnPage(last)'
     /\ (\E key \in DOMAIN cache : Expire(key)) => db' = db
     /\ (last'.op = "getById" /\ last'.cached = None /\ last'.fault = {})
          => last'.result = last'.row
     /\ (last'.op = "list" /\ last'.cached = None /\ last'.fault = {})
          => last'.result = Some(OwnPage(last)')]_vars

C27_Witness ==
  /\ last.op = "update" /\ last.error = NoError
  /\ Len(last.sets) = 1
  /\ last.sets[1].value = last.row[1]
  /\ last.sets[1].value # last.result[1]
  /\ DOMAIN cache = {last.sets[1].key}

\* C28: create issues exactly one INSERT and no read, and the entity it
\* returns is the caller's data plus the generated id and the timestamps,
\* as assembled in memory; if the INSERT fails, create rejects and returns
\* no entity.
C28_CreateOneInsert ==
  last.op = "create"
    => /\ Len(last.queries) = 1
       /\ last.queries[1].sql =
            <<"INSERT INTO ", "items", " VALUES ($1, $2, $3, $4)">>
       /\ Occurrences(last.steps, "queryDatabase") = 1
       /\ Occurrences(last.steps, "queryDatabaseSingle") = 0
       /\ Occurrences(last.steps, "cache.get") = 0
       /\ last.error = NoError
            => /\ last.result # None
               /\ DOMAIN last.result[1] =
                    DOMAIN last.data[1] \cup {"id", "created_at", "updated_at"}
               /\ \A f \in DOMAIN last.data[1] :
                    last.result[1][f] = last.data[1][f]
               /\ last.result[1].id = last.queries[1].params[1]
               /\ last.result[1].created_at = [iso |-> last.at]
               /\ last.result[1].updated_at = [iso |-> last.at]
       /\ "queryDatabase" \in last.fault
            => last.error = <<"backing store failure">>
       /\ last.error # NoError => last.result = None

C28_Witness ==
  /\ last.op = "create"
  /\ last.fault = {"queryDatabase"}
  /\ last.error = <<"backing store failure">>
  /\ last.result = None
  /\ Len(last.queries) = 1

\* The call awaited cache.set while it was failing, its query done: list on
\* a miss, getById (or the getById of update) on a miss with a row found.
CacheSetFailed(call) ==
  /\ call.fault = {"cache.set"}
  /\ call.cached = None
  /\ \/ call.op = "list"
     \/ call.op \in {"getById", "update"} /\ call.row # None

Logged(entry) == \E i \in 1..Len(log) : log[i] = entry

Pos(entry) == CHOOSE i \in 1..Len(log) : log[i] = entry

\* The await with which caller p's getById had the entity in hand: the
\* query on a miss, cache.get on a hit.
ReadAt(p) ==
  IF Logged(<<p, "queryDatabaseSingle">>)
    THEN Pos(<<p, "queryDatabaseSingle">>)
    ELSE Pos(<<p, "cache.get">>)

WriteAt(p) == Pos(<<p, "queryDatabase">>)

Other(p) == CHOOSE q \in Procs : q # p

\* Both callers ran update on one id to its end, each found the entity, and
\* both had read it before either's UPDATE was issued.
UpdatesRaced ==
  /\ \A p \in Procs : /\ tasks[p].pc = "done"
                       /\ tasks[p].op = "update"
                       /\ tasks[p].item # None
  /\ tasks[1].id = tasks[2].id
  /\ \A p, q \in Procs : Logged(<<q, "queryDatabase">>) => ReadAt(p) < WriteAt(q)

\* C21: two update calls on the same id that overlap can both read the same
\* base entity from getById before either writes; each then returns the
\* merge of that base with its own data, which lacks the other call's
\* fields, and both UPDATEs reach the backing store, neither rejected by a
\* version check: the row keeps only what the later UPDATE wrote.
C21_LostUpdate ==
  UpdatesRaced
    => /\ tasks[1].item = tasks[2].item
       /\ \A p \in Procs :
            /\ tasks[p].error = NoError
            /\ Logged(<<p, "queryDatabase">>)
            /\ tasks[p].result =
                 Some(Spread(Spread(tasks[p].item[1], tasks[p].data),
                             [updated_at |-> tasks[p].now]))
            /\ \A f \in DOMAIN tasks[Other(p)].data :
                 tasks[p].result[1][f] = tasks[p].item[1][f]
            /\ WriteAt(p) > WriteAt(Other(p)) /\ tasks[p].id \in DOMAIN db
                 => db[tasks[p].id].data = JSONstringify(tasks[p].data)

C21_Witness ==
  /\ UpdatesRaced
  /\ tasks[1].id \in DOMAIN db
  /\ tasks[1].result[1].name = "y"
  /\ tasks[1].result[1].description = "d"
  /\ tasks[2].result[1].name = "x"
  /\ tasks[2].result[1].description = "e"
  /\ WriteAt(1) < WriteAt(2)
  /\ db[tasks[1].id].data = JSONstringify([description |-> "e"])

\* Both callers ran list() to its end and both missed: each awaited a query.
ListsRaced ==
  /\ \A p \in Procs : /\ tasks[p].pc = "done"
                       /\ tasks[p].op = "list"
                       /\ Logged(<<p, "queryDatabase">>)
  /\ tasks[1].params = tasks[2].params

\* The caller whose cache.set resolved last.
LastSetter ==
  CHOOSE p \in Procs : Pos(<<p, "cache.set">>) > Pos(<<Other(p), "cache.set">>)

\* C22: two list calls for the same (page, limit) that overlap on a cold
\* cache can both miss and both query the backing store, nothing coalescing
\* them; the cache entry then holds the result of whichever call's
\* cache.set came last, be it the result of the older query.
C22_Stampede ==
  ListsRaced
    => /\ \A p \in Procs : /\ Logged(<<p, "cache.set">>)
                            /\ tasks[p].error = NoError
                            /\ tasks[p].result = tasks[p].items
       /\ cacheGet(cache, ListCacheKey(DefaultPage, DefaultLimit))
            = tasks[LastSetter].items

C22_Witness ==
  /\ ListsRaced
  /\ Pos(<<LastSetter, "queryDatabase">>)
       < Pos(<<Other(LastSetter), "queryDatabase">>)
  /\ tasks[1].items # tasks[2].items
  /\ cacheGet(cache, ListCacheKey(DefaultPage, DefaultLimit))
       = tasks[LastSetter].items
  /\ tasks[LastSetter].items[1] # <<>>
  /\ db = Empty

\* C30: for a store made by createAsyncStore, every fetch(params) whose
\* fetchFn settles, resolving or rejecting, completes without rejecting and
\* leaves loading false; loading is set to true before fetchFn is awaited.
C30_FetchEndsLoading ==
  [][\A p \in Procs :
       /\ tasks[p].pc = "fetchFn" /\ tasks'[p].pc = "done"
            => /\ tasks'[p].error = NoError
               /\ store'.loading = FALSE
       /\ tasks[p].pc # "fetchFn" /\ tasks'[p].pc = "fetchFn"
            => /\ store'.loading = TRUE
               /\ tasks'[p].loadingAtCall = TRUE]_vars

C30_Witness ==
  /\ tasks[1].pc = "done"
  /\ tasks[1].op = "fetch"
  /\ tasks[1].outcome = Some(RejectedWithValue("thrown"))
  /\ tasks[1].error = NoError
  /\ tasks[2].pc = "idle"
  /\ store.loading = FALSE
  /\ store.error = Some("Unknown error")

\* Caller p's fetchFn settles in this step.
Settles(p) == tasks[p].pc = "fetchFn" /\ tasks'[p].pc = "done"

\* The other caller's fetch is pending too, or settled while caller p's
\* was pending.
Overlapped(p) ==
  \/ tasks[Other(p)].pc = "fetchFn"
  \/ tasks[Other(p)].pc = "done" /\ p \in tasks[Other(p)].pendingAtSettle

\* C31: with two overlapping fetch calls on one createAsyncStore store,
\* the fetch that settles first sets loading to false while the other is
\* still pending, and a fetchFn that resolves sets data to its result
\* whether its fetch was started before or after the other: the data left
\* is that of the fetchFn that settles last, not of the fetch started last.
C31_OverlappingFetches ==
  [][\A p \in Procs :
       Settles(p) /\ Overlapped(p)
         => /\ store'.loading = FALSE
            /\ tasks'[Other(p)].pc = tasks[Other(p)].pc
            /\ tasks'[p].outcome[1].kind = "resolve"
                 => store'.data = Some(tasks'[p].outcome[1].value)]_vars

\* Caller 2 started its fetch while caller 1's was pending and settled
\* first; caller 1's older response then replaced caller 2's.
C31_Witness ==
  /\ \A p \in Procs : tasks[p].pc = "done"
  /\ tasks[1].pendingAtCall = {}
  /\ tasks[2].pendingAtCall = {1}
  /\ tasks[2].pendingAtSettle = {1}
  /\ tasks[2].outcome = Some(Resolved("b"))
  /\ tasks[1].outcome = Some(Resolved("a"))
  /\ store.data = Some("a")
  /\ store.loading = FALSE

\* C32: in createAsyncStore.fetch a fetchFn that resolves sets data to its
\* result and error to null; a fetchFn that fails sets error to the
\* error's message, or to 'Unknown error' when the thrown value is not an
\* Error, and leaves data as it was, so data of an earlier success stays
\* visible together with a non-null error.
C32_FetchOutcome ==
  [][\A p \in Procs :
       Settles(p)
         => LET outcome == tasks'[p].outcome[1]
            IN /\ outcome.kind = "resolve"
                    => /\ store'.data = Some(outcome.value)
                       /\ store'.error = None
               /\ outcome.kind = "reject"
                    => /\ store'.data = store.data
                       /\ outcome.isError
                            => store'.error = Some(outcome.message)
                       /\ ~outcome.isError
                            => store'.error = Some("Unknown error")]_vars

C32_Witness ==
  /\ tasks[1].pc = "done"
  /\ tasks[1].outcome = Some(RejectedWithError("Failed to fetch"))
  /\ tasks[1].pendingAtSettle = {}
  /\ tasks[2].pc = "done"
  /\ tasks[2].outcome = Some(Resolved("b"))
  /\ tasks[2].pendingAtSettle = {1}
  /\ store.data = Some("b")
  /\ store.error = Some("Failed to fetch")
  /\ store.loading = FALSE

\* Caller p's fetchItems runs to its end in this step.
Ends(p) ==
  /\ tasks[p].pc \in {"fetch", "response.json"}
  /\ tasks'[p].pc = "done"

\* C33: in useItemStore a fetchItems that succeeds replaces items wholesale
\* with the response data, so an addItem or removeItem applied while it was
\* in flight is overwritten; a fetchItems that fails (a response that is
\* not ok, or a thrown error) leaves items unchanged and sets error; in
\* both cases loading ends false.
C33_FetchItems ==
  [][\A p \in ItemCallers :
       Ends(p)
         => LET outcome == tasks'[p].outcome[1]
                success == tasks[p].pc = "response.json"
                             /\ outcome.kind = "resolve"
            IN /\ store'.loading = FALSE
               /\ success => /\ store'.items = outcome.value.data
                              /\ store'.error = None
               /\ ~success => /\ store'.items = store.items
                               /\ store'.error # None
               /\ outcome.kind = "resolve" /\ ~success
                    => store'.error = Some("Failed to fetch")]_vars

C33_Witness ==
  /\ tasks[1].pc = "done"
  /\ tasks[1].op = "fetchItems"
  /\ tasks[1].changedInFlight
  /\ tasks[1].outcome = Some(Resolved([data |-> <<Item("i2", "n")>>]))
  /\ store.items = <<Item("i2", "n")>>
  /\ store.error = None
  /\ store.loading = FALSE

\* The elements of items whose id is not id, in their order.
RECURSIVE Without(_, _)
Without(items, id) ==
  IF items = <<>> THEN <<>>
  ELSE IF Head(items).id = id THEN Without(Tail(items), id)
  ELSE <<Head(items)>> \o Without(Tail(items), id)

HasId(items, id) == \E i \in 1..Len(items) : items[i].id = id

SameButItems(a, b) ==
  /\ a.loading = b.loading
  /\ a.error = b.error
  /\ a.query = b.query

\* C34: in useItemStore removeItem(id) leaves items with no element of that
\* id and the other elements in their order, is idempotent, and changes
\* nothing when the id is absent; addItem(item) appends item as the last
\* element without de-duplicating, so addItem then removeItem(item.id)
\* restores items exactly only when no element had item.id before; both
\* leave loading, error and query unchanged.
C34_AddRemove ==
  /\ \A id \in ItemIds :
       LET removed == removeItem(store, id)
       IN /\ ~HasId(removed.items, id)
          /\ removed.items = Without(store.items, id)
          /\ removeItem(removed, id) = removed
          /\ ~HasId(store.items, id) => removed = store
          /\ SameButItems(removed, store)
  /\ \A item \in Items :
       LET added == addItem(store, item)
       IN /\ Len(added.items) = Len(store.items) + 1
          /\ added.items[Len(added.items)] = item
          /\ SubSeq(added.items, 1, Len(store.items)) = store.items
          /\ SameButItems(added, store)
          /\ removeItem(added, item.id).items = store.items
               <=> ~HasId(store.items, item.id)

C34_Witness ==
  /\ store.items = <<Item("i1", "n"), Item("i2", "n"), Item("i1", "m")>>
  /\ removeItem(store, "i1").items = <<Item("i2", "n")>>
  /\ removeItem(store, "i2").items = <<Item("i1", "n"), Item("i1", "m")>>
  /\ store.query = "q"
  /\ store.loading = TRUE

\* C35: for a store made by createSimpleStore(name, initialData), reset
\* from any reachable state yields exactly data = initialData, loading =
\* false, error = null; setData(d) sets data and clears error and leaves
\* loading; setError(e) sets error and forces loading to false and leaves
\* data; setLoading changes loading only.
C35_SimpleStore ==
  /\ LET after == simpleReset(store)
     IN /\ after.data = store.initialData
        /\ after.loading = FALSE
        /\ after.error = None
        /\ after = createSimpleStore(store.initialData)
  /\ \A data \in SimpleData :
       LET after == simpleSetData(store, data)
       IN /\ after.data = Some(data)
          /\ after.error = None
          /\ after.loading = store.loading
  /\ \A error \in SimpleErrors :
       LET after == simpleSetError(store, error)
       IN /\ after.error = error
          /\ after.loading = FALSE
          /\ after.data = store.data
  /\ \A loading \in BOOLEAN :
       LET after == simpleSetLoading(store, loading)
       IN /\ after.loading = loading
          /\ after.data = store.data
          /\ after.error = store.error

C35_Witness ==
  /\ store.initialData = Some("a")
  /\ store.data = Some("b")
  /\ store.loading = TRUE
  /\ store.error = Some("e1")
  /\ simpleReset(store).data = Some("a")

\* C36: within one repository the cache key function is injective:
\* distinct (page, limit) pairs give distinct list keys, distinct ids give
\* distinct id keys, and no list key equals an id key; every key starts
\* with the collection name followed by ':'.
C36_KeysInjective ==
  LET a == store.first
      b == store.second
      prefix == StringText(<<TableName, ":">>)
  IN /\ a.kind = "list" /\ b.kind = "list"
          /\ <<a.page, a.limit>> # <<b.page, b.limit>>
            => a.key # b.key
     /\ a.kind = "id" /\ b.kind = "id" /\ a.id # b.id => a.key # b.key
     /\ {a.kind, b.kind} = {"list", "id"} => a.key # b.key
     /\ b.kind # "none"
          => /\ Len(b.key) > Len(prefix)
             /\ SubSeq(b.key, 1, Len(prefix)) = prefix

C36_Witness ==
  /\ store.first.kind = "id"
  /\ store.first.id = StringText(<<"list", ":", "page:", "1", ":", "limit:", "10">>)
  /\ store.second.kind = "list"
  /\ store.second.page = 1
  /\ store.second.limit = 10
  /\ store.first.key # store.second.key
  /\ store.second.key = StringText(<<"items", ":">>) \o store.first.id

====
